---- MODULE Spec2Model ----
(***************************************************************************)
(* Model of the box_minter on-chain program                               *)
(* (src/onchain/programs/box_minter/src/lib.rs).                           *)
(*                                                                         *)
(* One instruction handler is one action.  A handler is an operator that   *)
(* runs its checks and effects in program order on a chain state s and     *)
(* returns the error it ended with, the effects it performed (ev) and the  *)
(* chain state at the moment it returned.  The runtime keeps that state    *)
(* only when the handler returned Ok (Commit); otherwise the whole         *)
(* instruction is discarded.  Instructions that write the same account are *)
(* serialised by the runtime, so handlers never interleave.                *)
(*                                                                         *)
(* Strings are sequences of one-character strings, one element per byte.   *)
(* Rent is not modelled: whether MPL-Core accepts a create is an input of  *)
(* mint_boxes (reject), and the config account costs its payer nothing.    *)
(***************************************************************************)
EXTENDS Integers, Sequences, FiniteSets, TLC

VARIABLES
    config,     \* the BoxMinterConfig account: NoConfig before initialize
    lamports,   \* balance of every wallet
    assets,     \* MPL-Core asset accounts that exist: address -> asset
    last,       \* the last instruction executed: its name, arguments, error
                \* and effects, and the chain state it ran on
    granted,    \* history: sum of the quantities of the successful mint_boxes
    issued,     \* history: <<address, sequence number>> of the boxes created,
                \* in creation order
    inflight,   \* two mint_boxes transactions submitted against one state
    deliveries, \* DeliveryRecord accounts that exist: address -> record
    pendings,   \* PendingOpenBox accounts that exist: address -> record
    receipts,   \* leaves of the receipts tree, in minting order
    delivered   \* the arguments of the successful deliver calls, in order

vars == <<config, lamports, assets, last, granted, issued, inflight,
         deliveries, pendings, receipts, delivered>>

---------------------------------------------------------------------------
\* Bounds of the model.

\* lamports every buyer wallet starts with
StartLamports == 5
\* max_supply passed to a well-formed initialize
SupplyArg == 3
\* price_lamports passed to a well-formed initialize
PriceArg == 2

---------------------------------------------------------------------------
\* Program constants.

MAX_SAFE_MINTS_PER_TX == 15
MAX_NAME_PREFIX == 8
MAX_SYMBOL == 10
MAX_URI_BASE == 96
\* n > u32::MAX and n > u64::MAX for n >= 0, written with quotients so that
\* no number above the model checker's integers is formed
OverU32(n) == (n \div 2^16) >= 2^16
OverU64(n) == (((n \div 2^16) \div 2^16) \div 2^16) >= 2^16

MPL_CORE_PROGRAM_ID == "mpl_core"
SYSTEM_PROGRAM_ID == "system"
DEFAULT_PUBKEY == "default"
SEED_BOX_ASSET == "box"
SEED_CONFIG == "config"

---------------------------------------------------------------------------
\* Strings.

Digit == <<"0", "1", "2", "3", "4", "5", "6", "7", "8", "9">>

RECURSIVE Dec(_)
\* write!(buf, "{}", n): the decimal digits of n, no sign, no leading zero
Dec(n) == IF n < 10 THEN <<Digit[n + 1]>>
          ELSE Dec(n \div 10) \o <<Digit[(n % 10) + 1]>>

\* str::ends_with
ends_with(s, suf) ==
    /\ Len(s) >= Len(suf)
    /\ SubSeq(s, Len(s) - Len(suf) + 1, Len(s)) = suf

\* str::starts_with
starts_with(s, pre) ==
    /\ Len(s) >= Len(pre)
    /\ SubSeq(s, 1, Len(pre)) = pre

DOT_JSON == <<".", "j", "s", "o", "n">>

\* a string of n bytes
Rep(c, n) == [i \in 1..n |-> c]

---------------------------------------------------------------------------
\* Accounts.

\* wallets (system-owned accounts holding lamports)
Wallets == {"admin", "alice", "vault"}
\* accounts passed as core_collection: a real MPL-Core collection, the
\* all-zero key, and an account that MPL-Core does not own
CollectionAccounts == {"coll", DEFAULT_PUBKEY, "rogue"}

\* AccountInfo::owner of the fixed accounts
AccountOwner(k) == IF k = "coll" THEN MPL_CORE_PROGRAM_ID
                   ELSE IF k = DEFAULT_PUBKEY THEN "native_loader"
                   ELSE SYSTEM_PROGRAM_ID

NoConfig == [exists |-> FALSE]

\* bump seeds a client may pass
Bumps == {254, 255}

\* Whether the hash of the seeds is a point of the curve (then it is no
\* program address).  A fixed function of the seeds, like the hash.
OnCurve(tag, key, id, i, bump) == bump = 255 /\ (id + i) % 2 = 0

\* Pubkey::create_program_address: the address of the seeds, or none
NoAddress == <<"none">>
create_program_address(tag, key, id, i, bump) ==
    IF OnCurve(tag, key, id, i, bump) THEN NoAddress
    ELSE <<tag, key, id, i, bump>>

\* the bump Pubkey::find_program_address returns: the highest one that
\* gives an address
canonical_bump(tag, key, id, i) ==
    CHOOSE b \in Bumps :
        /\ create_program_address(tag, key, id, i, b) # NoAddress
        /\ \A c \in Bumps : c > b =>
               create_program_address(tag, key, id, i, c) = NoAddress

---------------------------------------------------------------------------
\* Metadata of box number idx.

\* name_buf of mint_boxes
box_name(cfg, idx) ==
    cfg.name_prefix
        \o (IF cfg.name_prefix # <<>> /\ ~ends_with(cfg.name_prefix, <<" ">>)
            THEN <<" ">> ELSE <<>>)
        \o Dec(idx)

\* fault: the number appended whatever uri_base ends in
box_uri_AlwaysAppend(cfg, idx) ==
    cfg.uri_base \o
        (IF cfg.uri_base # <<>>
         THEN (IF ~ends_with(cfg.uri_base, <<"/">>) THEN <<"/">> ELSE <<>>)
                  \o Dec(idx) \o DOT_JSON
         ELSE <<>>)

\* uri_buf of mint_boxes
box_uri(cfg, idx) ==
    cfg.uri_base
        \o (IF cfg.uri_base # <<>> /\ ~ends_with(cfg.uri_base, DOT_JSON)
            THEN (IF ~ends_with(cfg.uri_base, <<"/">>) THEN <<"/">> ELSE <<>>)
                     \o Dec(idx) \o DOT_JSON
            ELSE <<>>)

---------------------------------------------------------------------------
\* What a handler returns: the error, the effects performed in order, and
\* the chain state when it returned.

Ret(err, ev, cfg, lam, ast) ==
    [err |-> err, ev |-> ev, config |-> cfg, lamports |-> lam, assets |-> ast]

Fail(s, err) == Ret(err, <<>>, s.config, s.lamports, s.assets)

---------------------------------------------------------------------------
\* initialize

\* fault: the config account taken as it is found (init_if_needed)
InitializeAccounts_IfNeeded(s, a) == "Ok"

\* #[derive(Accounts)] Initialize: `init` creates the config account and
\* fails when the address is already in use
InitializeAccounts(s, a) ==
    IF s.config.exists THEN "AccountAlreadyInUse" ELSE "Ok"

\* fault: max_per_tx checked to be positive only, not against the cap
InitializeChecks_NoCap(a) ==
    IF ~(a.max_supply > 0) THEN "InvalidMaxSupply"
    ELSE IF ~(a.max_per_tx > 0) THEN "InvalidMaxPerTx"
    ELSE IF ~(a.price_lamports > 0) THEN "InvalidPrice"
    ELSE IF ~(Len(a.name_prefix) <= MAX_NAME_PREFIX) THEN "NameTooLong"
    ELSE IF ~(Len(a.symbol) <= MAX_SYMBOL) THEN "SymbolTooLong"
    ELSE IF ~(Len(a.uri_base) <= MAX_URI_BASE) THEN "UriTooLong"
    ELSE IF ~(a.core_collection # DEFAULT_PUBKEY) THEN "InvalidCoreCollection"
    ELSE IF AccountOwner(a.core_collection) # MPL_CORE_PROGRAM_ID
         THEN "InvalidCoreCollection"
    ELSE "Ok"

\* the require! checks of initialize, in order
InitializeChecks(a) ==
    IF ~(a.max_supply > 0) THEN "InvalidMaxSupply"
    ELSE IF ~(a.max_per_tx > 0) THEN "InvalidMaxPerTx"
    ELSE IF ~(a.max_per_tx <= MAX_SAFE_MINTS_PER_TX) THEN "InvalidMaxPerTx"
    ELSE IF ~(a.price_lamports > 0) THEN "InvalidPrice"
    ELSE IF ~(Len(a.name_prefix) <= MAX_NAME_PREFIX) THEN "NameTooLong"
    ELSE IF ~(Len(a.symbol) <= MAX_SYMBOL) THEN "SymbolTooLong"
    ELSE IF ~(Len(a.uri_base) <= MAX_URI_BASE) THEN "UriTooLong"
    ELSE IF ~(a.core_collection # DEFAULT_PUBKEY) THEN "InvalidCoreCollection"
    ELSE IF AccountOwner(a.core_collection) # MPL_CORE_PROGRAM_ID
         THEN "InvalidCoreCollection"
    ELSE "Ok"

\* the record initialize writes
InitializeRecord(a) ==
    [exists          |-> TRUE,
     admin           |-> a.admin,
     treasury        |-> a.treasury,
     core_collection |-> a.core_collection,
     price_lamports  |-> a.price_lamports,
     max_supply      |-> a.max_supply,
     max_per_tx      |-> a.max_per_tx,
     minted          |-> 0,
     name_prefix     |-> a.name_prefix,
     symbol          |-> a.symbol,
     uri_base        |-> a.uri_base,
     bump            |-> canonical_bump(SEED_CONFIG, "", 0, 0)]

initialize(s, a) ==
    IF InitializeAccounts(s, a) # "Ok" THEN Fail(s, InitializeAccounts(s, a))
    ELSE IF InitializeChecks(a) # "Ok" THEN Fail(s, InitializeChecks(a))
    ELSE Ret("Ok", << <<"init">> >>, InitializeRecord(a), s.lamports, s.assets)

---------------------------------------------------------------------------
\* set_treasury

\* fault: the signer not compared with config.admin
SetTreasuryAccounts_NoHasOne(s, a) ==
    IF ~s.config.exists THEN "AccountNotInitialized" ELSE "Ok"

\* #[derive(Accounts)] SetTreasury: config must exist, has_one = admin
SetTreasuryAccounts(s, a) ==
    IF ~s.config.exists THEN "AccountNotInitialized"
    ELSE IF s.config.admin # a.admin THEN "ConstraintHasOne"
    ELSE "Ok"

set_treasury(s, a) ==
    IF SetTreasuryAccounts(s, a) # "Ok" THEN Fail(s, SetTreasuryAccounts(s, a))
    ELSE Ret("Ok", << <<"treasury", a.treasury>> >>,
             [s.config EXCEPT !.treasury = a.treasury], s.lamports, s.assets)

---------------------------------------------------------------------------
\* mint_boxes

\* AccountInfo::owner of an account passed in remaining_accounts: an asset
\* account that exists belongs to MPL-Core, an address nothing was created
\* at belongs to the system program
RemainingOwner(key, ast) ==
    IF key \in DOMAIN ast THEN MPL_CORE_PROGRAM_ID ELSE SYSTEM_PROGRAM_ID

\* #[derive(Accounts)] MintBoxes: config must exist, the treasury and the
\* collection passed must be the configured ones
MintBoxesAccounts(s, a) ==
    IF ~s.config.exists THEN "AccountNotInitialized"
    ELSE IF a.treasury # s.config.treasury THEN "ConstraintAddress"
    ELSE IF a.core_collection # s.config.core_collection THEN "ConstraintAddress"
    ELSE "Ok"

\* cfg.max_per_tx.min(MAX_SAFE_MINTS_PER_TX)
max_qty(cfg) ==
    IF cfg.max_per_tx < MAX_SAFE_MINTS_PER_TX THEN cfg.max_per_tx
    ELSE MAX_SAFE_MINTS_PER_TX

\* fault: a quantity of 0 let through
MintBoxesChecks_NoLowerBound(s, a) ==
    IF a.mpl_core_program # MPL_CORE_PROGRAM_ID THEN "InvalidMplCoreProgram"
    ELSE IF ~(a.quantity <= max_qty(s.config)) THEN "InvalidQuantity"
    ELSE IF OverU32(s.config.minted + a.quantity) THEN "MathOverflow"
    ELSE IF ~(s.config.minted + a.quantity <= s.config.max_supply) THEN "SoldOut"
    ELSE IF OverU64(s.config.price_lamports * a.quantity) THEN "MathOverflow"
    ELSE "Ok"

\* fault: the supply check made on minted, without the quantity asked
MintBoxesChecks_NoAddQuantity(s, a) ==
    IF a.mpl_core_program # MPL_CORE_PROGRAM_ID THEN "InvalidMplCoreProgram"
    ELSE IF ~(a.quantity >= 1) THEN "InvalidQuantity"
    ELSE IF ~(a.quantity <= max_qty(s.config)) THEN "InvalidQuantity"
    ELSE IF OverU32(s.config.minted + a.quantity) THEN "MathOverflow"
    ELSE IF ~(s.config.minted <= s.config.max_supply) THEN "SoldOut"
    ELSE IF OverU64(s.config.price_lamports * a.quantity) THEN "MathOverflow"
    ELSE "Ok"

\* fault: the supply check made on the quantity alone, as if nothing had
\* been minted since the call was built
MintBoxesChecks_StaleSupply(s, a) ==
    IF a.mpl_core_program # MPL_CORE_PROGRAM_ID THEN "InvalidMplCoreProgram"
    ELSE IF ~(a.quantity >= 1) THEN "InvalidQuantity"
    ELSE IF ~(a.quantity <= max_qty(s.config)) THEN "InvalidQuantity"
    ELSE IF OverU32(s.config.minted + a.quantity) THEN "MathOverflow"
    ELSE IF ~(a.quantity <= s.config.max_supply) THEN "SoldOut"
    ELSE IF OverU64(s.config.price_lamports * a.quantity) THEN "MathOverflow"
    ELSE "Ok"

\* the checks of mint_boxes that come before the payment, in order
MintBoxesChecks(s, a) ==
    IF a.mpl_core_program # MPL_CORE_PROGRAM_ID THEN "InvalidMplCoreProgram"
    ELSE IF ~(a.quantity >= 1) THEN "InvalidQuantity"
    ELSE IF ~(a.quantity <= max_qty(s.config)) THEN "InvalidQuantity"
    ELSE IF OverU32(s.config.minted + a.quantity) THEN "MathOverflow"
    ELSE IF ~(s.config.minted + a.quantity <= s.config.max_supply) THEN "SoldOut"
    ELSE IF OverU64(s.config.price_lamports * a.quantity) THEN "MathOverflow"
    ELSE "Ok"

\* fault: the price charged once, not per box
TakePayment_FlatPrice(s, a, r) ==
    LET cost == s.config.price_lamports IN
    IF ~(cost > 0) THEN r
    ELSE IF r.lamports[a.payer] < cost THEN [r EXCEPT !.err = "TransferFailed"]
    ELSE [r EXCEPT !.lamports = [@ EXCEPT ![a.payer] = @ - cost,
                                          ![a.treasury] = @ + cost],
                   !.ev = Append(@, <<"pay", a.payer, a.treasury, cost>>)]

\* fault: the boxes minted without payment when the payer holds too little
TakePayment_IfAffordable(s, a, r) ==
    LET cost == s.config.price_lamports * a.quantity IN
    IF ~(cost > 0) THEN r
    ELSE IF r.lamports[a.payer] < cost THEN r
    ELSE [r EXCEPT !.lamports = [@ EXCEPT ![a.payer] = @ - cost,
                                          ![a.treasury] = @ + cost],
                   !.ev = Append(@, <<"pay", a.payer, a.treasury, cost>>)]

\* "Take payment": the system transfer of cost lamports from the payer to
\* the treasury account passed; the system program refuses it when the
\* payer holds less.  r is the handler's result so far.
TakePayment(s, a, r) ==
    LET cost == s.config.price_lamports * a.quantity IN
    IF ~(cost > 0) THEN r
    ELSE IF r.lamports[a.payer] < cost THEN [r EXCEPT !.err = "TransferFailed"]
    ELSE [r EXCEPT !.lamports = [@ EXCEPT ![a.payer] = @ - cost,
                                          ![a.treasury] = @ + cost],
                   !.ev = Append(@, <<"pay", a.payer, a.treasury, cost>>)]

\* the two length checks on remaining_accounts and box_bumps
RemainingChecks(a) ==
    IF Len(a.remaining) # a.quantity THEN "InvalidRemainingAccounts"
    ELSE IF Len(a.box_bumps) # a.quantity THEN "InvalidRemainingAccounts"
    ELSE "Ok"

\* the asset MPL-Core CreateV1 makes from the instruction mint_boxes builds:
\* owner = payer, update authority = the collection, name and uri as built
CreateV1Box(s, a, idx) ==
    [owner   |-> a.payer,
     ua_kind |-> 2,
     ua      |-> a.core_collection,
     name    |-> box_name(s.config, idx),
     uri     |-> box_uri(s.config, idx)]

\* fault: numbering started at minted
start_index_FromMinted(s) == s.config.minted

\* let start_index = cfg.minted + 1
start_index(s) == s.config.minted + 1

\* fault: the result of the CreateV1 invocation ignored
MintOne_IgnoreCpiError(s, a, i, r) ==
    LET idx      == start_index(s) + i
        expected == create_program_address(SEED_BOX_ASSET, a.payer, a.mint_id,
                                           i, a.box_bumps[i + 1])
        key      == a.remaining[i + 1]
    IN  IF expected = NoAddress THEN [r EXCEPT !.err = "InvalidAssetPda"]
        ELSE IF key # expected THEN [r EXCEPT !.err = "InvalidAssetPda"]
        ELSE IF RemainingOwner(key, r.assets) # SYSTEM_PROGRAM_ID
             THEN [r EXCEPT !.err = "InvalidAssetPda"]
        ELSE IF a.reject = i THEN r
        ELSE [r EXCEPT !.assets = (key :> CreateV1Box(s, a, idx)) @@ @,
                       !.ev = Append(@, <<"create", key, idx>>)]

\* fault: a box created whatever the account holds
MintOne_NoOwnerCheck(s, a, i, r) ==
    LET idx      == start_index(s) + i
        expected == create_program_address(SEED_BOX_ASSET, a.payer, a.mint_id,
                                           i, a.box_bumps[i + 1])
        key      == a.remaining[i + 1]
    IN  IF expected = NoAddress THEN [r EXCEPT !.err = "InvalidAssetPda"]
        ELSE IF key # expected THEN [r EXCEPT !.err = "InvalidAssetPda"]
        ELSE IF a.reject = i THEN [r EXCEPT !.err = "CpiFailed"]
        ELSE [r EXCEPT !.assets = (key :> CreateV1Box(s, a, idx)) @@ @,
                       !.ev = Append(@, <<"create", key, idx>>)]

\* fault: the account passed not compared with the derived address
MintOne_NoKeyCheck(s, a, i, r) ==
    LET idx      == start_index(s) + i
        expected == create_program_address(SEED_BOX_ASSET, a.payer, a.mint_id,
                                           i, a.box_bumps[i + 1])
        key      == a.remaining[i + 1]
    IN  IF expected = NoAddress THEN [r EXCEPT !.err = "InvalidAssetPda"]
        ELSE IF RemainingOwner(key, r.assets) # SYSTEM_PROGRAM_ID
             THEN [r EXCEPT !.err = "InvalidAssetPda"]
        ELSE IF a.reject = i THEN [r EXCEPT !.err = "CpiFailed"]
        ELSE [r EXCEPT !.assets = (key :> CreateV1Box(s, a, idx)) @@ @,
                       !.ev = Append(@, <<"create", key, idx>>)]

\* one iteration of the loop of mint_boxes, for i = 0..quantity-1: check
\* the i-th address, build the metadata, invoke CreateV1.  The registry
\* rejects the create of index a.reject (none when a.reject = -1).
MintOne(s, a, i, r) ==
    LET idx      == start_index(s) + i
        expected == create_program_address(SEED_BOX_ASSET, a.payer, a.mint_id,
                                           i, a.box_bumps[i + 1])
        key      == a.remaining[i + 1]
    IN  IF expected = NoAddress THEN [r EXCEPT !.err = "InvalidAssetPda"]
        ELSE IF key # expected THEN [r EXCEPT !.err = "InvalidAssetPda"]
        ELSE IF RemainingOwner(key, r.assets) # SYSTEM_PROGRAM_ID
             THEN [r EXCEPT !.err = "InvalidAssetPda"]
        ELSE IF a.reject = i THEN [r EXCEPT !.err = "CpiFailed"]
        ELSE [r EXCEPT !.assets = (key :> CreateV1Box(s, a, idx)) @@ @,
                       !.ev = Append(@, <<"create", key, idx>>)]

RECURSIVE MintLoop(_, _, _, _)
\* for i in 0..qty_u32, leaving at the first error
MintLoop(s, a, i, r) ==
    IF i >= a.quantity \/ r.err # "Ok" THEN r
    ELSE MintLoop(s, a, i + 1, MintOne(s, a, i, r))

\* fault: minted counting calls, not boxes
WriteMinted_PerCall(s, a, r) ==
    [r EXCEPT !.config = [@ EXCEPT !.minted = s.config.minted + 1],
              !.ev = Append(@, <<"minted", s.config.minted + 1>>)]

\* ctx.accounts.config.minted = new_total
WriteMinted(s, a, r) ==
    [r EXCEPT !.config = [@ EXCEPT !.minted = s.config.minted + a.quantity],
              !.ev = Append(@, <<"minted", s.config.minted + a.quantity>>)]

mint_boxes(s, a) ==
    IF MintBoxesAccounts(s, a) # "Ok" THEN Fail(s, MintBoxesAccounts(s, a))
    ELSE IF MintBoxesChecks(s, a) # "Ok" THEN Fail(s, MintBoxesChecks(s, a))
    ELSE LET paid == TakePayment(s, a, Fail(s, "Ok"))
         IN  IF paid.err # "Ok" THEN paid
             ELSE IF RemainingChecks(a) # "Ok"
                  THEN [paid EXCEPT !.err = RemainingChecks(a)]
             ELSE LET made == MintLoop(s, a, 0, paid)
                  IN  IF made.err # "Ok" THEN made ELSE WriteMinted(s, a, made)

---------------------------------------------------------------------------
\* The runtime: an instruction that returns an error leaves no effect.

\* the chain state the handlers run on
Chain ==
    [config |-> config, lamports |-> lamports, assets |-> assets,
     deliveries |-> deliveries, pendings |-> pendings, receipts |-> receipts]

Commit(r) ==
    /\ config'   = IF r.err = "Ok" THEN r.config   ELSE config
    /\ lamports' = IF r.err = "Ok" THEN r.lamports ELSE lamports
    /\ assets'   = IF r.err = "Ok" THEN r.assets   ELSE assets
    /\ deliveries' = IF r.err = "Ok" /\ "deliveries" \in DOMAIN r
                     THEN r.deliveries ELSE deliveries
    /\ pendings' = IF r.err = "Ok" /\ "pendings" \in DOMAIN r
                   THEN r.pendings ELSE pendings
    /\ receipts' = IF r.err = "Ok" /\ "receipts" \in DOMAIN r
                   THEN r.receipts ELSE receipts

\* the kinds of the effects, in order
Tags(ev) == [i \in 1..Len(ev) |-> ev[i][1]]

\* the assets created, in order: <<address, sequence number>>
Created(ev) ==
    LET c == SelectSeq(ev, LAMBDA e : e[1] = "create")
    IN  [i \in 1..Len(c) |-> <<c[i][2], c[i][3]>>]

\* the record of an executed instruction: its name, arguments, error and
\* effects, and the chain state it ran on
Done(op, args, r) ==
    [op |-> op, err |-> r.err, args |-> args, ev |-> Tags(r.ev), pre |-> Chain]

---------------------------------------------------------------------------
\* Inputs.

InitSigners   == {"admin"}
TreasuryKeys  == {"admin", "vault"}
Payers        == {"alice", "admin"}
MintIds       == {1, 2}
Quantities    == (0..SupplyArg) \cup {MAX_SAFE_MINTS_PER_TX + 1}

\* max_per_tx, name_prefix and uri_base of a well-formed initialize: the
\* quantity cap reads the first, the name the second, the URI the third
Templates ==
    { <<2, (<<"B">>), (<<"u">>)>>,
      <<MAX_SAFE_MINTS_PER_TX, (<<>>), (<<"m">> \o DOT_JSON)>>,
      <<2, (<<"B", " ">>), (<<"u", "/">>)>> }

InitArgs ==
    { [admin |-> ad, treasury |-> "vault", core_collection |-> "coll",
       price_lamports |-> PriceArg, max_supply |-> SupplyArg,
       max_per_tx |-> t[1], name_prefix |-> t[2], symbol |-> <<"B", "X">>,
       uri_base |-> t[3]] :
      ad \in InitSigners, t \in Templates }

\* the treasury, collection and registry program accounts a client passes
MintAccounts ==
    { <<"vault", "coll", MPL_CORE_PROGRAM_ID>>,
      <<"admin", "coll", MPL_CORE_PROGRAM_ID>>,
      <<"vault", "rogue", MPL_CORE_PROGRAM_ID>>,
      <<"vault", "coll", "other_program">> }

\* what a client derives for a mint of n boxes: the canonical bump and the
\* address of each index
ClientBumps(payer, id, n) ==
    [k \in 1..n |-> canonical_bump(SEED_BOX_ASSET, payer, id, k - 1)]
ClientAddresses(payer, id, n) ==
    [k \in 1..n |-> create_program_address(SEED_BOX_ASSET, payer, id, k - 1,
                        canonical_bump(SEED_BOX_ASSET, payer, id, k - 1))]

\* the registry rejecting a create is tried with the configured collection
\* and the registry program itself passed
MintArgs ==
    { [payer |-> p, treasury |-> acc[1], core_collection |-> acc[2],
       mpl_core_program |-> acc[3], quantity |-> q, mint_id |-> id,
       box_bumps |-> ClientBumps(p, id, q),
       remaining |-> ClientAddresses(p, id, q), reject |-> x] :
      p \in Payers, acc \in MintAccounts, q \in Quantities, id \in MintIds,
      x \in -1..(SupplyArg - 1) }

---------------------------------------------------------------------------
\* Actions.

NoChain == [config |-> NoConfig]

\* no pair of calls in flight
NoPair == [calls |-> <<>>, errs |-> <<>>, order |-> <<>>]

Init ==
    /\ config = NoConfig
    /\ lamports = [w \in Wallets |-> IF w \in Payers THEN StartLamports ELSE 0]
    /\ assets = <<>>
    /\ last = [op |-> "none", err |-> "Ok", args |-> <<>>, ev |-> <<>>,
               pre |-> NoChain]
    /\ granted = 0
    /\ issued = <<>>
    /\ inflight = NoPair
    /\ deliveries = <<>>
    /\ pendings = <<>>
    /\ receipts = <<>>
    /\ delivered = <<>>

\* A failed instruction changes nothing but `last` (Commit), so what can
\* follow it is what can follow the state it was tried in: instructions are
\* explored from the states successful instructions leave.
Ready == last.err = "Ok"

Initialize ==
    \E a \in InitArgs :
        /\ Ready
        /\ Commit(initialize(Chain, a))
        /\ last' = Done("initialize", a, initialize(Chain, a))
        /\ UNCHANGED <<granted, issued, inflight, delivered>>

SetTreasury ==
    \E ad \in {"admin", "alice"}, t \in TreasuryKeys :
        LET a == [admin |-> ad, treasury |-> t] IN
        /\ Ready
        /\ Commit(set_treasury(Chain, a))
        /\ last' = Done("set_treasury", a, set_treasury(Chain, a))
        /\ UNCHANGED <<granted, issued, inflight, delivered>>

\* a mint_boxes instruction executed on the chain as it is
MintVia(a) ==
    LET r == mint_boxes(Chain, a) IN
    /\ Commit(r)
    /\ last' = Done("mint_boxes", a, r)
    /\ granted' = IF r.err = "Ok" THEN granted + a.quantity ELSE granted
    /\ issued' = IF r.err = "Ok" THEN issued \o Created(r.ev) ELSE issued
    /\ UNCHANGED delivered

MintBoxes ==
    \E a \in MintArgs :
        /\ Ready
        /\ a.reject < a.quantity
        /\ a.reject >= 0 => /\ a.core_collection = "coll"
                            /\ a.mpl_core_program = MPL_CORE_PROGRAM_ID
        /\ MintVia(a)
        /\ UNCHANGED inflight

Next == Initialize \/ SetTreasury \/ MintBoxes

Spec == Init /\ [][Next]_vars

---------------------------------------------------------------------------
\* Two mint_boxes calls in flight together.  Both write the config account,
\* so the runtime executes them one after the other, in either order.

\* no pair is in flight: none was submitted, or both calls have executed
Settled == Len(inflight.order) = Len(inflight.calls)

\* two clients each build a call that would succeed on the chain as it is;
\* together they ask for more than remains
SubmitPair ==
    /\ Settled
    /\ config.exists
    /\ \E a1 \in MintArgs :
        /\ a1.reject = -1
        /\ mint_boxes(Chain, a1).err = "Ok"
        /\ \E a2 \in MintArgs :
            /\ a2.reject = -1
            /\ a1.quantity + a2.quantity > config.max_supply - config.minted
            /\ mint_boxes(Chain, a2).err = "Ok"
            /\ inflight' = [calls |-> <<a1, a2>>,
                            errs  |-> <<"pending", "pending">>,
                            order |-> <<>>]
            /\ UNCHANGED <<config, lamports, assets, last, granted, issued,
                           deliveries, pendings, receipts, delivered>>

\* the runtime executes one of the calls in flight
ExecuteOne ==
    \E i \in 1..2 :
        /\ i <= Len(inflight.calls)
        /\ inflight.errs[i] = "pending"
        /\ MintVia(inflight.calls[i])
        /\ inflight' = [inflight EXCEPT
                            !.errs[i] = mint_boxes(Chain, inflight.calls[i]).err,
                            !.order = Append(@, i)]

InitializeFirst == inflight = NoPair /\ Initialize

NextRace == InitializeFirst \/ SubmitPair \/ ExecuteOne

SpecRace == Init /\ [][NextRace]_vars

---------------------------------------------------------------------------
\* initialize at the edges of what it accepts.

\* a string of n bytes
Bytes(n) == Rep("x", n)

EdgeInitArgs ==
    { [admin |-> ad, treasury |-> tr, core_collection |-> cc,
       price_lamports |-> pr, max_supply |-> ms, max_per_tx |-> mp,
       name_prefix |-> Bytes(np), symbol |-> Bytes(sy), uri_base |-> Bytes(ub)] :
      ad \in {"admin", "alice"}, tr \in TreasuryKeys, cc \in CollectionAccounts,
      pr \in {0, PriceArg}, ms \in {0, SupplyArg},
      mp \in {0, 1, MAX_SAFE_MINTS_PER_TX, MAX_SAFE_MINTS_PER_TX + 1},
      np \in {MAX_NAME_PREFIX, MAX_NAME_PREFIX + 1},
      sy \in {MAX_SYMBOL, MAX_SYMBOL + 1},
      ub \in {MAX_URI_BASE, MAX_URI_BASE + 1} }

InitializeEdge ==
    \E a \in EdgeInitArgs :
        /\ Ready
        /\ Commit(initialize(Chain, a))
        /\ last' = Done("initialize", a, initialize(Chain, a))
        /\ UNCHANGED <<granted, issued, inflight, delivered>>

SpecInit == Init /\ [][InitializeEdge]_vars

---------------------------------------------------------------------------
\* The URI of a box, over the uri_base values initialize accepts.

MaxUriParts == 3
MaxSeq == 12

UriParts == { <<"u">>, <<"/">>, <<".">>, <<"1">>, <<"j", "s", "o", "n">>,
              DOT_JSON }

RECURSIVE Concats(_)
\* the strings made of at most n parts
Concats(n) ==
    IF n = 0 THEN {<<>>}
    ELSE Concats(n - 1) \cup {p \o q : p \in Concats(n - 1), q \in UriParts}

UriBases ==
    Concats(MaxUriParts)
        \cup {Bytes(MAX_URI_BASE), Bytes(MAX_URI_BASE - 5) \o DOT_JSON}

UriInitArgs ==
    { [admin |-> "admin", treasury |-> "vault", core_collection |-> "coll",
       price_lamports |-> PriceArg, max_supply |-> MaxSeq,
       max_per_tx |-> MAX_SAFE_MINTS_PER_TX, name_prefix |-> <<"B">>,
       symbol |-> <<"B", "X">>, uri_base |-> u] : u \in UriBases }

InitUri ==
    /\ config \in {InitializeRecord(a) :
                      a \in {x \in UriInitArgs : InitializeChecks(x) = "Ok"}}
    /\ lamports = [w \in Wallets |-> IF w \in Payers THEN StartLamports ELSE 0]
    /\ assets = <<>>
    /\ last = [op |-> "none", err |-> "Ok", args |-> <<>>, ev |-> <<>>,
               pre |-> NoChain]
    /\ granted = 0
    /\ issued = <<>>
    /\ inflight = NoPair
    /\ deliveries = <<>>
    /\ pendings = <<>>
    /\ receipts = <<>>
    /\ delivered = <<>>

\* the URI mint_boxes builds for sequence number k
BuildUri ==
    \E k \in 1..MaxSeq :
        /\ last.op = "none"
        /\ last' = [op |-> "box_uri", err |-> "Ok", args |-> [idx |-> k],
                    ev |-> <<>>, pre |-> Chain, out |-> box_uri(config, k)]
        /\ UNCHANGED <<config, lamports, assets, granted, issued, inflight,
                       deliveries, pendings, receipts, delivered>>

SpecUri == InitUri /\ [][BuildUri]_vars

---------------------------------------------------------------------------
\* Properties.  `last` is the instruction executed last: its arguments, the
\* error it returned, the effects it performed before returning, and the
\* chain state it ran on (last.pre).

IsMint == last.op = "mint_boxes"
MintOk == IsMint /\ last.err = "Ok"

\* the chain is as the last instruction found it
Untouched ==
    /\ config = last.pre.config
    /\ lamports = last.pre.lamports
    /\ assets = last.pre.assets
    /\ deliveries = last.pre.deliveries
    /\ pendings = last.pre.pendings
    /\ receipts = last.pre.receipts

\* the accounts the last mint_boxes passed are the configured treasury and
\* collection and the registry program
ConfiguredAccounts ==
    /\ last.pre.config.exists
    /\ last.args.treasury = last.pre.config.treasury
    /\ last.args.core_collection = last.pre.config.core_collection
    /\ last.args.mpl_core_program = MPL_CORE_PROGRAM_ID

\* C1: config.minted is the sum of the quantities of the successful
\* mint_boxes calls since initialize (granted), every successful call adds
\* its quantity, and minted never exceeds max_supply.
C1_MintedIsSumOfQuantities ==
    /\ ~config.exists => granted = 0
    /\ config.exists => /\ config.minted = granted
                        /\ config.minted <= config.max_supply
    /\ MintOk => config.minted = last.pre.config.minted + last.args.quantity

\* two successful calls, of 1 and then 2 boxes, have filled the supply
C1_TwoCallsFillSupply ==
    /\ MintOk
    /\ last.args.quantity = 2
    /\ last.pre.config.minted = 1
    /\ config.minted = config.max_supply

\* the quantity is 0 or above min(max_per_tx, 15)
QuantityOutOfRange ==
    \/ last.args.quantity = 0
    \/ /\ last.pre.config.exists
       /\ \/ last.args.quantity > last.pre.config.max_per_tx
          \/ last.args.quantity > MAX_SAFE_MINTS_PER_TX

\* C2 as stated: a mint_boxes whose quantity is 0 or above
\* min(max_per_tx, 15) fails with InvalidQuantity and changes nothing.
C2_AlwaysInvalidQuantity ==
    IsMint /\ last.pre.config.exists /\ QuantityOutOfRange
        => last.err = "InvalidQuantity" /\ Untouched

\* C2: a mint_boxes whose quantity is 0 or above min(max_per_tx, 15) fails
\* and changes nothing; the error is InvalidQuantity when the configured
\* treasury and collection and the registry program are passed, and the
\* error of the account or program check that comes first otherwise.
C2_OutOfRangeQuantityFails ==
    IsMint /\ QuantityOutOfRange
        => /\ last.err # "Ok"
           /\ Untouched
           /\ ConfiguredAccounts => last.err = "InvalidQuantity"
           /\ ~ConfiguredAccounts =>
                 last.err \in {"AccountNotInitialized", "ConstraintAddress",
                               "InvalidMplCoreProgram"}

\* 3 boxes asked where max_per_tx is 2: within the limit of 15, refused
C2_AboveMaxPerTxRefused ==
    /\ IsMint
    /\ ConfiguredAccounts
    /\ last.args.quantity = 3
    /\ last.pre.config.max_per_tx = 2
    /\ last.err = "InvalidQuantity"

\* the last mint_boxes with every create accepted by the registry
Accepted == [last.args EXCEPT !.reject = -1]

\* C4: when the registry rejects the create of any index of a batch that
\* would otherwise succeed, the call fails and the chain is as before it
\* (minted, every balance, no asset of the batch); no failed mint_boxes
\* changes anything; and a successful one has written minted last, after
\* the payment and all quantity creates.
C4_AllOrNothing ==
    /\ (IsMint /\ last.args.reject >= 0
               /\ mint_boxes(last.pre, Accepted).err = "Ok")
          => /\ last.err # "Ok"
             /\ Untouched
             /\ \A i \in 1..last.args.quantity :
                    last.args.remaining[i] \notin DOMAIN assets
    /\ (IsMint /\ last.err # "Ok")
          => Untouched /\ \A i \in 1..Len(last.ev) : last.ev[i] # "minted"
    /\ MintOk
          => last.ev = <<"pay">> \o [i \in 1..last.args.quantity |-> "create"]
                                 \o <<"minted">>

\* the second create of a batch of two was rejected after the payment and
\* the first create had been made
C4_SecondCreateRejected ==
    /\ IsMint
    /\ last.args.quantity = 2
    /\ last.args.reject = 1
    /\ last.ev = <<"pay", "create">>
    /\ last.err = "CpiFailed"

C6_ExactPayment ==
    /\ MintOk
          => LET cost == last.pre.config.price_lamports * last.args.quantity
                 paid == [last.pre.lamports EXCEPT ![last.args.payer] = @ - cost]
             IN  /\ cost > 0
                 /\ lamports =
                      [paid EXCEPT ![last.pre.config.treasury] = @ + cost]
                 /\ last.ev[1] = "pay"
                 /\ \A i \in 2..Len(last.ev) : last.ev[i] # "pay"
    /\ (IsMint /\ last.pre.config.exists
               /\ last.args.treasury # last.pre.config.treasury)
          => last.err # "Ok" /\ Untouched

\* two boxes paid to a treasury that set_treasury had changed
C6_PaidToChangedTreasury ==
    /\ MintOk
    /\ last.args.quantity = 2
    /\ last.pre.config.treasury = "admin"
    /\ last.args.payer = "alice"
    /\ lamports["admin"] = StartLamports + 2 * PriceArg

\* the assets a successful mint_boxes was passed, in order
Batch == [i \in 1..last.args.quantity |-> last.args.remaining[i]]

\* the addresses issued so far
IssuedAt == {issued[k][1] : k \in 1..Len(issued)}

\* C7 as stated: the i-th asset of a successful mint_boxes from minted = m
\* is named name_prefix + " " + (m + 1 + i).
C7_NameAlwaysSpaced ==
    MintOk => \A i \in 1..last.args.quantity :
                 assets[Batch[i]].name =
                     last.pre.config.name_prefix \o <<" ">>
                         \o Dec(last.pre.config.minted + i)

\* the name of sequence number n: the separating space is left out when
\* the prefix is empty or ends in a space
SpacedName(prefix, n) ==
    IF prefix = <<>> \/ prefix[Len(prefix)] = " " THEN prefix \o Dec(n)
    ELSE prefix \o <<" ">> \o Dec(n)

\* C7: a successful mint_boxes from minted = m has created exactly quantity
\* assets and touched no other; the i-th is owned by the payer and named
\* name_prefix, a space unless the prefix is empty or ends in one, and
\* m + 1 + i.  Over all calls the sequence numbers issued are 1..minted in
\* order, each to one asset of its own.
C7_BatchNumbering ==
    /\ MintOk
          => /\ DOMAIN assets = DOMAIN last.pre.assets
                                    \cup {Batch[i] : i \in 1..Len(Batch)}
             /\ Cardinality(DOMAIN assets)
                    = Cardinality(DOMAIN last.pre.assets) + last.args.quantity
             /\ \A k \in DOMAIN last.pre.assets : assets[k] = last.pre.assets[k]
             /\ \A i \in 1..last.args.quantity :
                    /\ assets[Batch[i]].owner = last.args.payer
                    /\ assets[Batch[i]].name =
                           SpacedName(last.pre.config.name_prefix,
                                      last.pre.config.minted + i)
    /\ config.exists
          => /\ Len(issued) = config.minted
             /\ IssuedAt = DOMAIN assets
             /\ Cardinality(IssuedAt) = Len(issued)
             /\ \A k \in 1..Len(issued) :
                    /\ issued[k][2] = k
                    /\ assets[issued[k][1]].name
                           = SpacedName(config.name_prefix, k)

\* the second call of a payer has created boxes 2 and 3
C7_SecondBatchNumbered ==
    /\ MintOk
    /\ last.pre.config.minted = 1
    /\ last.args.quantity = 2
    /\ last.pre.config.name_prefix = <<"B">>
    /\ assets[Batch[1]].name = <<"B", " ", "2">>
    /\ assets[Batch[2]].name = <<"B", " ", "3">>

\* C10: the configuration record is created once: an initialize that
\* finds it fails and leaves it as it was, minted included; the only
\* initialize that succeeds is the one that found none; and no instruction
\* removes it.
C10_InitializeOnce ==
    /\ (last.op = "initialize" /\ last.pre.config.exists)
          => last.err # "Ok" /\ Untouched
    /\ (last.op = "initialize" /\ last.err = "Ok")
          => ~last.pre.config.exists /\ config.minted = 0
    /\ (last.op # "none" /\ last.pre.config.exists) => config.exists

\* an initialize was refused after boxes had been minted
C10_ReinitializeRefused ==
    /\ last.op = "initialize"
    /\ last.err = "AccountAlreadyInUse"
    /\ config.exists
    /\ config.minted = 2

\* C3: of two mint_boxes calls in flight together, each valid on the chain
\* they were built on and fitting what remained, but together asking for
\* more than remains, the one the runtime executes first succeeds and the
\* other fails and changes nothing, in either order; minted never exceeds
\* max_supply.
C3_FirstToCommitWins ==
    /\ config.exists => config.minted <= config.max_supply
    /\ Len(inflight.order) >= 1
          => inflight.errs[inflight.order[1]] = "Ok"
    /\ Len(inflight.order) = 2
          => /\ inflight.errs[inflight.order[2]] = "SoldOut"
             /\ last.args = inflight.calls[inflight.order[2]]
             /\ last.err = "SoldOut"
             /\ Untouched

\* the call submitted second was executed first and won; the payers differ
C3_SecondSubmittedWins ==
    /\ inflight.order = <<2, 1>>
    /\ inflight.errs = <<"SoldOut", "Ok">>
    /\ inflight.calls[1].payer # inflight.calls[2].payer
    /\ config.minted = 2

\* the URI of sequence number k ends in k.json and begins with base
NumberedUnder(uri, base, k) ==
    ends_with(uri, Dec(k) \o DOT_JSON) /\ starts_with(uri, base)

\* C8 as stated: the URI of sequence number k ends in "k.json" and begins
\* with uri_base, except that a uri_base ending in ".json" is the URI.
C8_AlwaysNumbered ==
    last.op = "box_uri"
        => IF ends_with(config.uri_base, DOT_JSON)
           THEN last.out = config.uri_base
           ELSE NumberedUnder(last.out, config.uri_base, last.args.idx)

\* C8: for a uri_base that is not empty the URI of sequence number k ends
\* in "k.json" and begins with uri_base, except that a uri_base ending in
\* ".json" is the URI; for the empty uri_base the URI is empty.
C8_NumberedUnlessEmpty ==
    last.op = "box_uri"
        => IF ends_with(config.uri_base, DOT_JSON)
           THEN last.out = config.uri_base
           ELSE IF config.uri_base = <<>> THEN last.out = <<>>
           ELSE NumberedUnder(last.out, config.uri_base, last.args.idx)

\* the URI of box 10 under "u/"
C8_TenUnderSlash ==
    /\ last.op = "box_uri"
    /\ config.uri_base = <<"u", "/">>
    /\ last.args.idx = 10
    /\ last.out = <<"u", "/", "1", "0">> \o DOT_JSON

\* an argument initialize refuses
RefusedArgs(a) ==
    \/ a.max_supply = 0
    \/ a.max_per_tx = 0
    \/ a.max_per_tx > 15
    \/ a.price_lamports = 0
    \/ Len(a.name_prefix) > 8
    \/ Len(a.symbol) > 10
    \/ Len(a.uri_base) > 96

\* C9: initialize fails and creates no record when max_supply = 0,
\* max_per_tx = 0, max_per_tx > 15, price_lamports = 0, name_prefix is
\* longer than 8 bytes, symbol longer than 10 or uri_base longer than 96;
\* a failed initialize changes nothing; a successful one leaves a record
\* holding the admin, treasury, collection, price, max_supply, max_per_tx
\* and the three strings supplied, with minted = 0.
C9_InitializeValidates ==
    last.op = "initialize"
        => /\ RefusedArgs(last.args) => last.err # "Ok"
           /\ last.err # "Ok" => Untouched
           /\ (last.err # "Ok" /\ ~last.pre.config.exists) => ~config.exists
           /\ last.err = "Ok"
                 => /\ config.exists
                    /\ config.admin = last.args.admin
                    /\ config.treasury = last.args.treasury
                    /\ config.core_collection = last.args.core_collection
                    /\ config.price_lamports = last.args.price_lamports
                    /\ config.max_supply = last.args.max_supply
                    /\ config.max_per_tx = last.args.max_per_tx
                    /\ config.name_prefix = last.args.name_prefix
                    /\ config.symbol = last.args.symbol
                    /\ config.uri_base = last.args.uri_base
                    /\ config.minted = 0

\* max_per_tx = 16 refused with every other argument at its limit
C9_SixteenPerTxRefused ==
    /\ last.op = "initialize"
    /\ last.args.max_per_tx = 16
    /\ last.args.price_lamports > 0
    /\ last.args.max_supply > 0
    /\ Len(last.args.name_prefix) = 8
    /\ Len(last.args.symbol) = 10
    /\ Len(last.args.uri_base) = 96
    /\ last.err = "InvalidMaxPerTx"
    /\ ~config.exists

\* C11: set_treasury signed by another key than config.admin fails and
\* leaves config.treasury (and everything else) as it was; signed by
\* config.admin it sets config.treasury to the key given and changes no
\* other field of the record, no balance and no asset.
C11_SetTreasuryAdminOnly ==
    (last.op = "set_treasury" /\ last.pre.config.exists)
        => /\ last.args.admin # last.pre.config.admin
                 => /\ last.err # "Ok"
                    /\ config.treasury = last.pre.config.treasury
                    /\ Untouched
           /\ last.args.admin = last.pre.config.admin
                 => /\ last.err = "Ok"
                    /\ config = [last.pre.config EXCEPT
                                     !.treasury = last.args.treasury]
                    /\ lamports = last.pre.lamports
                    /\ assets = last.pre.assets

\* the admin has moved the treasury after boxes were sold
C11_TreasuryMovedAfterSale ==
    /\ last.op = "set_treasury"
    /\ last.err = "Ok"
    /\ last.pre.config.treasury = "vault"
    /\ config.treasury = "admin"
    /\ config.minted = 2

---------------------------------------------------------------------------
\* mint_boxes with the bumps and target accounts a client may send: any
\* bump per index, and as targets the addresses of those bumps, the
\* canonical addresses, an address of another payer or of another mint id
\* in the last place, one target too few or one too many.

DeriveQuantities == {1, 2}

\* the addresses of the given bumps, index by index
AddressesOf(payer, id, bumps) ==
    [k \in 1..Len(bumps) |->
        create_program_address(SEED_BOX_ASSET, payer, id, k - 1, bumps[k])]

OtherPayer(p) == IF p = "alice" THEN "admin" ELSE "alice"
OtherMintId(id) == IF id = 1 THEN 2 ELSE 1

TargetLists(p, id, q, bumps) ==
    LET n    == Len(bumps)
        own  == AddressesOf(p, id, bumps)
        theirs == AddressesOf(OtherPayer(p), id, bumps)
        older  == AddressesOf(p, OtherMintId(id), bumps)
    IN  { own, ClientAddresses(p, id, q) }
        \cup (IF n >= 1
              THEN { [own EXCEPT ![n] = theirs[n]],
                     [own EXCEPT ![n] = older[n]],
                     SubSeq(own, 1, n - 1),
                     Append(own, theirs[n]) }
              ELSE {})

\* the bump lists and target lists sent with a mint of q boxes of mint id
BumpsAndTargets(p, id, q) ==
    UNION { { <<bumps, t>> : t \in TargetLists(p, id, q, bumps) } :
            bumps \in UNION { [1..n -> Bumps] : n \in (q - 1)..(q + 1) } }

DeriveCall(p, id, q, b) ==
    [payer |-> p, treasury |-> "vault", core_collection |-> "coll",
     mpl_core_program |-> MPL_CORE_PROGRAM_ID, quantity |-> q,
     mint_id |-> id, box_bumps |-> b[1], remaining |-> b[2], reject |-> -1]

DeriveArgs ==
    UNION { { DeriveCall("alice", c[1], c[2], b) :
                b \in BumpsAndTargets("alice", c[1], c[2]) } :
            c \in MintIds \X DeriveQuantities }

MintDerived ==
    \E a \in DeriveArgs :
        /\ Ready
        /\ MintVia(a)
        /\ UNCHANGED inflight

NextDerive == Initialize \/ MintDerived

SpecDerive == Init /\ [][NextDerive]_vars

\* the i-th target is the address derived from the i-th bump
DerivedTarget(a, i) ==
    LET expected == create_program_address(SEED_BOX_ASSET, a.payer, a.mint_id,
                                           i, a.box_bumps[i + 1])
    IN  expected # NoAddress /\ a.remaining[i + 1] = expected

\* as many targets and as many bumps as boxes asked for, each target derived
AllDerived(a) ==
    /\ Len(a.remaining) = a.quantity
    /\ Len(a.box_bumps) = a.quantity
    /\ \A i \in 0..(a.quantity - 1) : DerivedTarget(a, i)

\* C13: a mint_boxes call succeeds only if the number of targets and the
\* number of bumps equal quantity and every i-th target is the address
\* derived from "box", the payer, mint_id, i and box_bumps[i]; a call with a
\* mismatching bump or address, or with another number of targets or
\* bumps, fails and changes no state.
C13_TargetsAreDerived ==
    (IsMint /\ last.pre.config.exists)
        => /\ last.err = "Ok" => AllDerived(last.args)
           /\ ~AllDerived(last.args) => last.err # "Ok" /\ Untouched

\* two boxes asked for, the first target derived and the second an address
\* of another payer: refused at the second box, after the payment and the
\* first create, and nothing of it is left
C13_SecondTargetForeign ==
    /\ IsMint /\ last.args.quantity = 2
    /\ Len(last.args.remaining) = 2 /\ Len(last.args.box_bumps) = 2
    /\ DerivedTarget(last.args, 0)
    /\ last.args.remaining[2] # NoAddress
    /\ last.args.remaining[2] =
           create_program_address(SEED_BOX_ASSET, "admin", last.args.mint_id,
                                  1, last.args.box_bumps[2])
    /\ last.err = "InvalidAssetPda"
    /\ last.ev = <<"pay", "create">>
    /\ Untouched

---------------------------------------------------------------------------
\* deliver and close_delivery.
\*
\* A delivery record is an account of this program at the address derived
\* from "delivery", the delivery id and a bump; it holds the lamports the
\* payer put into it as rent.  An address nobody has a record at is a
\* system-owned account without data.

MAX_SAFE_DELIVERY_ITEMS_PER_TX == 32
MIN_DELIVERY_LAMPORTS == 1000000
MAX_DELIVERY_LAMPORTS == 3000000
SEED_DELIVERY == "delivery"
SPL_NOOP_PROGRAM_ID == "spl_noop"
PROGRAM_ID == "box_minter"

\* Rent::get()?.minimum_balance(DeliveryRecord::SPACE)
DeliveryRent == 7

\* `n as u8`, `n as u16`
AsU8(n) == n % 256
AsU16(n) == n % 65536

\* the result of a handler that runs on chain state s, before any effect
Begin(s) ==
    [err |-> "Ok", ev |-> <<>>, config |-> s.config, lamports |-> s.lamports,
     assets |-> s.assets, deliveries |-> s.deliveries,
     pendings |-> s.pendings, receipts |-> s.receipts]

Refuse(s, err) == [Begin(s) EXCEPT !.err = err]

\* Pubkey::create_program_address(&[SEED_DELIVERY, &delivery_id_bytes,
\* &[delivery_bump]], program_id)
delivery_address(id, bump) ==
    create_program_address(SEED_DELIVERY, PROGRAM_ID, id, 0, bump)

\* the owner of the account at a delivery address
DeliveryOwner(key, dl) ==
    IF key \in DOMAIN dl THEN PROGRAM_ID ELSE SYSTEM_PROGRAM_ID

\* #[derive(Accounts)] Deliver: config must exist; the treasury, the
\* collection and the log wrapper passed must be the configured ones
DeliverAccounts(s, a) ==
    IF ~s.config.exists THEN "AccountNotInitialized"
    ELSE IF a.treasury # s.config.treasury THEN "ConstraintAddress"
    ELSE IF a.core_collection # s.config.core_collection THEN "ConstraintAddress"
    ELSE IF a.log_wrapper # SPL_NOOP_PROGRAM_ID THEN "ConstraintAddress"
    ELSE "Ok"

\* fault: any signer accepted as cosigner
DeliverChecks_AnyCosigner(s, a) ==
    IF ~(/\ a.delivery_fee_lamports >= MIN_DELIVERY_LAMPORTS
         /\ a.delivery_fee_lamports <= MAX_DELIVERY_LAMPORTS)
         THEN "InvalidDeliveryFee"
    ELSE IF Len(a.remaining) = 0 THEN "InvalidQuantity"
    ELSE IF ~(AsU8(Len(a.remaining)) <= MAX_SAFE_DELIVERY_ITEMS_PER_TX)
         THEN "InvalidQuantity"
    ELSE IF a.mpl_core_program # MPL_CORE_PROGRAM_ID THEN "InvalidMplCoreProgram"
    ELSE IF a.log_wrapper # SPL_NOOP_PROGRAM_ID THEN "InvalidLogWrapper"
    ELSE "Ok"

\* the checks of deliver on its arguments, in the order of the code: the
\* cosigner, the fee band, the number of items, the two programs
DeliverChecks(s, a) ==
    IF a.cosigner # s.config.admin THEN "InvalidCosigner"
    ELSE IF ~(/\ a.delivery_fee_lamports >= MIN_DELIVERY_LAMPORTS
              /\ a.delivery_fee_lamports <= MAX_DELIVERY_LAMPORTS)
         THEN "InvalidDeliveryFee"
    ELSE IF Len(a.remaining) = 0 THEN "InvalidQuantity"
    ELSE IF ~(AsU8(Len(a.remaining)) <= MAX_SAFE_DELIVERY_ITEMS_PER_TX)
         THEN "InvalidQuantity"
    ELSE IF a.mpl_core_program # MPL_CORE_PROGRAM_ID THEN "InvalidMplCoreProgram"
    ELSE IF a.log_wrapper # SPL_NOOP_PROGRAM_ID THEN "InvalidLogWrapper"
    ELSE "Ok"

\* the record address is re-derived from the id and the bump sent, and no
\* record may be there yet
DeliveryPdaChecks(s, a) ==
    LET expected == delivery_address(a.delivery_id, a.delivery_bump) IN
    IF expected = NoAddress THEN "InvalidDeliveryPda"
    ELSE IF a.delivery # expected THEN "InvalidDeliveryPda"
    ELSE IF a.delivery \in DOMAIN s.deliveries THEN "DeliveryAlreadyExists"
    ELSE "Ok"

\* system_instruction::create_account paid by the payer, then the record
\* serialized into the new account
CreateDeliveryRecord(s, a, r) ==
    IF r.lamports[a.payer] < DeliveryRent
    THEN [r EXCEPT !.err = "CreateAccountFailed"]
    ELSE [r EXCEPT
            !.lamports = [@ EXCEPT ![a.payer] = @ - DeliveryRent],
            !.deliveries = (a.delivery :>
                [payer |-> a.payer,
                 delivery_fee_lamports |-> a.delivery_fee_lamports,
                 item_count |-> AsU16(Len(a.remaining)),
                 lamports |-> DeliveryRent]) @@ @,
            !.ev = @ \o << <<"rent", a.payer, a.delivery, DeliveryRent>>,
                           <<"record", a.delivery>> >>]

\* fault: the minimum fee taken whatever fee was sent
TakeDeliveryFee_Minimum(s, a, r) ==
    IF r.lamports[a.payer] < MIN_DELIVERY_LAMPORTS
    THEN [r EXCEPT !.err = "TransferFailed"]
    ELSE [r EXCEPT
            !.lamports = [[@ EXCEPT ![a.payer] = @ - MIN_DELIVERY_LAMPORTS]
                            EXCEPT ![a.treasury] = @ + MIN_DELIVERY_LAMPORTS],
            !.ev = Append(@, <<"fee", a.payer, a.treasury,
                               MIN_DELIVERY_LAMPORTS>>)]

\* system_instruction::transfer(payer, treasury, delivery_fee_lamports)
TakeDeliveryFee(s, a, r) ==
    IF ~(a.delivery_fee_lamports > 0) THEN r
    ELSE IF r.lamports[a.payer] < a.delivery_fee_lamports
    THEN [r EXCEPT !.err = "TransferFailed"]
    ELSE [r EXCEPT
            !.lamports = [[@ EXCEPT ![a.payer] = @ - a.delivery_fee_lamports]
                            EXCEPT ![a.treasury] = @ + a.delivery_fee_lamports],
            !.ev = Append(@, <<"fee", a.payer, a.treasury,
                               a.delivery_fee_lamports>>)]

\* MPL-Core TransferV1 as the registry executes it: the account must hold
\* an asset, the authority must be its owner, and the collection passed
\* must be the one the asset belongs to
CoreTransferAllowed(ast, key, collection, authority) ==
    /\ key \in DOMAIN ast
    /\ ast[key].owner = authority
    /\ ast[key].ua_kind = 2
    /\ ast[key].ua = collection

\* fault: the item moved whoever owns it
EscrowOne_AnyOwner(s, a, i, r) ==
    LET key == a.remaining[i + 1] IN
    IF key \notin DOMAIN r.assets
    THEN [r EXCEPT !.err = "CoreTransferFailed"]
    ELSE [r EXCEPT !.assets = [@ EXCEPT ![key].owner = a.treasury],
                   !.ev = Append(@, <<"escrow", key>>)]

\* one TransferV1 invocation of the loop of deliver: the item goes from the
\* payer to the treasury
EscrowOne(s, a, i, r) ==
    LET key == a.remaining[i + 1] IN
    IF ~CoreTransferAllowed(r.assets, key, a.core_collection, a.payer)
    THEN [r EXCEPT !.err = "CoreTransferFailed"]
    ELSE [r EXCEPT !.assets = [@ EXCEPT ![key].owner = a.treasury],
                   !.ev = Append(@, <<"escrow", key>>)]

RECURSIVE EscrowLoop(_, _, _, _, _)
\* for asset_ai in ctx.remaining_accounts.iter(), leaving at the first
\* error: the items lo..hi-1 in order, the first half before the second
EscrowLoop(s, a, lo, hi, r) ==
    IF lo >= hi \/ r.err # "Ok" THEN r
    ELSE IF hi = lo + 1 THEN EscrowOne(s, a, lo, r)
    ELSE LET mid == (lo + hi) \div 2 IN
         EscrowLoop(s, a, mid, hi, EscrowLoop(s, a, lo, mid, r))

deliver(s, a) ==
    IF DeliverAccounts(s, a) # "Ok" THEN Refuse(s, DeliverAccounts(s, a))
    ELSE IF DeliverChecks(s, a) # "Ok" THEN Refuse(s, DeliverChecks(s, a))
    ELSE IF DeliveryPdaChecks(s, a) # "Ok"
         THEN Refuse(s, DeliveryPdaChecks(s, a))
    ELSE LET made == CreateDeliveryRecord(s, a, Begin(s)) IN
         IF made.err # "Ok" THEN made
         ELSE LET paid == TakeDeliveryFee(s, a, made) IN
              IF paid.err # "Ok" THEN paid
              ELSE EscrowLoop(s, a, 0, Len(a.remaining), paid)

\* #[derive(Accounts)] CloseDelivery
CloseDeliveryAccounts(s, a) ==
    IF ~s.config.exists THEN "AccountNotInitialized"
    ELSE IF a.treasury # s.config.treasury THEN "ConstraintAddress"
    ELSE "Ok"

\* fault: the owner of the account not looked at
CloseDeliveryChecks_NoOwnerCheck(s, a) ==
    LET expected == delivery_address(a.delivery_id, a.delivery_bump) IN
    IF a.cosigner # s.config.admin THEN "InvalidCosigner"
    ELSE IF expected = NoAddress THEN "InvalidDeliveryPda"
    ELSE IF a.delivery # expected THEN "InvalidDeliveryPda"
    ELSE "Ok"

\* the cosigner, the address and the owner of the account to close
CloseDeliveryChecks(s, a) ==
    LET expected == delivery_address(a.delivery_id, a.delivery_bump) IN
    IF a.cosigner # s.config.admin THEN "InvalidCosigner"
    ELSE IF expected = NoAddress THEN "InvalidDeliveryPda"
    ELSE IF a.delivery # expected THEN "InvalidDeliveryPda"
    ELSE IF DeliveryOwner(a.delivery, s.deliveries) # PROGRAM_ID
         THEN "InvalidDeliveryPda"
    ELSE "Ok"

\* the lamports an account at a delivery address holds
DeliveryLamports(key, dl) == IF key \in DOMAIN dl THEN dl[key].lamports ELSE 0

\* the record without the account closed
WithoutRecord(dl, key) == [k \in DOMAIN dl \ {key} |-> dl[k]]

\* the lamports of the record go to the treasury (checked_add), the account
\* is assigned to the system program and resized to nothing
DrainAndClose(s, a, r) ==
    LET lam == DeliveryLamports(a.delivery, r.deliveries) IN
    IF lam > 0 /\ OverU64(r.lamports[a.treasury] + lam)
    THEN [r EXCEPT !.err = "MathOverflow"]
    ELSE [r EXCEPT !.lamports = [@ EXCEPT ![a.treasury] = @ + lam],
                   !.deliveries = WithoutRecord(@, a.delivery),
                   !.ev = @ \o << <<"drain", a.delivery, a.treasury, lam>>,
                                  <<"closed", a.delivery>> >>]

close_delivery(s, a) ==
    IF CloseDeliveryAccounts(s, a) # "Ok"
    THEN Refuse(s, CloseDeliveryAccounts(s, a))
    ELSE IF CloseDeliveryChecks(s, a) # "Ok"
         THEN Refuse(s, CloseDeliveryChecks(s, a))
    ELSE DrainAndClose(s, a, Begin(s))

---------------------------------------------------------------------------
\* The delivery desk: a shop is set up, boxes are sold, holders send them
\* in with deliver and the admin closes the records.

\* how many successful deliver calls are followed
MaxDelivered == 2

\* what a wallet that buys and delivers starts with: the price of every
\* box, rent for two records, one fee at the top of the band and one at
\* the bottom
DeliveryFunds ==
    SupplyArg * PriceArg + 2 * DeliveryRent
        + MAX_DELIVERY_LAMPORTS + MIN_DELIVERY_LAMPORTS

InitDelivery ==
    /\ config = NoConfig
    /\ lamports = [w \in Wallets |-> IF w \in Payers THEN DeliveryFunds ELSE 0]
    /\ assets = <<>>
    /\ last = [op |-> "none", err |-> "Ok", args |-> <<>>, ev |-> <<>>,
               pre |-> NoChain]
    /\ granted = 0
    /\ issued = <<>>
    /\ inflight = NoPair
    /\ deliveries = <<>>
    /\ pendings = <<>>
    /\ receipts = <<>>
    /\ delivered = <<>>

\* a shop whose boxes carry a numbered URI and whose treasury is a vault,
\* and a shop set up with an empty uri_base whose treasury is the admin's
\* own wallet
DeliveryInitArgs ==
    { [admin |-> "admin", treasury |-> t[1], core_collection |-> "coll",
       price_lamports |-> PriceArg, max_supply |-> SupplyArg,
       max_per_tx |-> 2, name_prefix |-> <<"B">>, symbol |-> <<"B", "X">>,
       uri_base |-> t[2]] :
      t \in { <<"vault", <<"u", "/">> >>, <<"admin", <<>> >> } }

InitializeShop ==
    \E a \in DeliveryInitArgs :
        /\ Ready
        /\ Commit(initialize(Chain, a))
        /\ last' = Done("initialize", a, initialize(Chain, a))
        /\ UNCHANGED <<granted, issued, inflight, delivered>>

\* a well-formed purchase: alice buys two boxes, the admin one
SellBoxes ==
    \E b \in { <<"alice", 2>>, <<"admin", 1>> } :
        /\ Ready
        /\ config.exists
        /\ MintVia([payer |-> b[1], treasury |-> config.treasury,
                    core_collection |-> config.core_collection,
                    mpl_core_program |-> MPL_CORE_PROGRAM_ID,
                    quantity |-> b[2], mint_id |-> 1,
                    box_bumps |-> ClientBumps(b[1], 1, b[2]),
                    remaining |-> ClientAddresses(b[1], 1, b[2]),
                    reject |-> -1])
        /\ UNCHANGED inflight

DeliveryIds == {1, 2}

\* the ids and bumps a record is asked at, each with the fee the cosigner
\* sets for it: the first id twice at the bottom of the band (both bumps
\* give an address), the second at the top (its higher bump gives none)
DeliverySlots ==
    { <<1, 254, MIN_DELIVERY_LAMPORTS>>, <<1, 255, MIN_DELIVERY_LAMPORTS>>,
      <<2, 254, MAX_DELIVERY_LAMPORTS>>, <<2, 255, MAX_DELIVERY_LAMPORTS>> }

\* fees just outside the band
FeesOutOfBand == { MIN_DELIVERY_LAMPORTS - 1, MAX_DELIVERY_LAMPORTS + 1 }

\* item counts at and around the cap, and at and around 2^8
ItemCounts ==
    { MAX_SAFE_DELIVERY_ITEMS_PER_TX, MAX_SAFE_DELIVERY_ITEMS_PER_TX + 1,
      256, 257, 256 + MAX_SAFE_DELIVERY_ITEMS_PER_TX + 1 }

\* the boxes of the purchases, at the addresses the buyers derived
BoxKeys(p) == ClientAddresses(p, 1, 2)

\* the item accounts sent: none, one box, or the two boxes of a purchase
ItemLists ==
    { <<>> } \cup UNION { { <<BoxKeys(p)[1]>>, <<BoxKeys(p)[2]>>, BoxKeys(p) } :
                          p \in Payers }

\* one box listed many times
LongItemLists(p) == { Rep(BoxKeys(p)[1], n) : n \in ItemCounts }

DeliverCall(cs, p, t, c, m, lw, d, id, b, fee, items) ==
    [cosigner |-> cs, payer |-> p, treasury |-> t, core_collection |-> c,
     mpl_core_program |-> m, log_wrapper |-> lw, delivery |-> d,
     delivery_id |-> id, delivery_bump |-> b, delivery_fee_lamports |-> fee,
     remaining |-> items]

\* a call with every account as configured and the record address derived
\* from the id and bump sent
GoodDeliver(p, id, b, fee, items) ==
    DeliverCall("admin", p, config.treasury, config.core_collection,
                MPL_CORE_PROGRAM_ID, SPL_NOOP_PROGRAM_ID,
                delivery_address(id, b), id, b, fee, items)

GoodDeliverArgs ==
    { GoodDeliver(p, sl[1], sl[2], sl[3], items) :
        p \in Payers, sl \in DeliverySlots, items \in ItemLists }
    \cup { GoodDeliver(p, 1, 254, fee, <<BoxKeys(p)[1]>>) :
             p \in Payers, fee \in FeesOutOfBand }
    \cup UNION { { GoodDeliver(p, 1, 254, MIN_DELIVERY_LAMPORTS, items) :
                     items \in LongItemLists(p) } : p \in Payers }

\* a good call with one thing wrong: the cosigner, the treasury, the
\* collection, the registry program, the log wrapper, or the record address
SkewedDeliverArgs ==
    UNION { { [g EXCEPT !.cosigner = "alice"],
              [g EXCEPT !.treasury = "alice"],
              [g EXCEPT !.core_collection = "rogue"],
              [g EXCEPT !.mpl_core_program = "other_program"],
              [g EXCEPT !.log_wrapper = "other_program"],
              [g EXCEPT !.delivery =
                    delivery_address(3 - g.delivery_id, 254)] } :
            g \in { x \in GoodDeliverArgs :
                      /\ x.remaining = <<BoxKeys(x.payer)[1]>>
                      /\ x.delivery_fee_lamports \notin FeesOutOfBand
                      /\ x.delivery_bump = 254 } }

DeliverVia(a) ==
    LET r == deliver(Chain, a) IN
    /\ Commit(r)
    /\ last' = Done("deliver", a, r)
    /\ delivered' = IF r.err = "Ok" THEN Append(delivered, a)
                    ELSE delivered
    /\ UNCHANGED <<granted, issued, inflight>>

Deliver ==
    /\ Ready
    /\ config.exists
    /\ Len(delivered) < MaxDelivered
    /\ \E a \in GoodDeliverArgs \cup SkewedDeliverArgs : DeliverVia(a)

CloseCall(cs, t, d, id, b) ==
    [cosigner |-> cs, treasury |-> t, delivery |-> d, delivery_id |-> id,
     delivery_bump |-> b]

\* close_delivery of every id and bump, at the derived address or at the
\* address of the other bump, signed by the admin or by a holder, with the
\* configured treasury or another account in its place
CloseArgs ==
    { CloseCall(cs, t, delivery_address(id, d), id, b) :
      cs \in {"admin", "alice"}, t \in {config.treasury, "alice"},
      id \in DeliveryIds, b \in Bumps, d \in Bumps }

CloseDelivery ==
    /\ Ready
    /\ config.exists
    /\ \E a \in CloseArgs :
        /\ Commit(close_delivery(Chain, a))
        /\ last' = Done("close_delivery", a, close_delivery(Chain, a))
        /\ UNCHANGED <<granted, issued, inflight, delivered>>

NextDelivery == InitializeShop \/ SellBoxes \/ Deliver \/ CloseDelivery

SpecDelivery == InitDelivery /\ [][NextDelivery]_vars

---------------------------------------------------------------------------
\* Reading an asset back: the checks the program makes on an asset account
\* it is shown, and the URI templates of boxes and figures.

BOXES == <<"b", "o", "x", "e", "s">>
FIGURES == <<"f", "i", "g", "u", "r", "e", "s">>
SLASH == <<"/">>
JSON_DIR == <<"/", "j", "s", "o", "n">>

\* str::contains
contains(s, pat) ==
    \E i \in 1..(Len(s) - Len(pat) + 1) : SubSeq(s, i, i + Len(pat) - 1) = pat

RECURSIVE replace(_, _, _)
\* str::replace: every match, left to right, without overlap
replace(s, pat, rep) ==
    IF Len(s) < Len(pat) \/ Len(pat) = 0 THEN s
    ELSE IF SubSeq(s, 1, Len(pat)) = pat
         THEN rep \o replace(SubSeq(s, Len(pat) + 1, Len(s)), pat, rep)
    ELSE <<s[1]>> \o replace(SubSeq(s, 2, Len(s)), pat, rep)

IsDigit(c) == \E d \in 1..10 : Digit[d] = c
DigitValue(c) == (CHOOSE d \in 1..10 : Digit[d] = c) - 1

\* Option<u32>::None
NoRef == 0

RECURSIVE ParseDigits(_, _)
\* the loop over the stem: checked_mul(10), checked_add(digit)
ParseDigits(stem, out) ==
    IF stem = <<>> THEN out
    ELSE IF ~IsDigit(stem[1]) THEN NoRef
    ELSE IF OverU32(out * 10) THEN NoRef
    ELSE IF OverU32(out * 10 + DigitValue(stem[1])) THEN NoRef
    ELSE ParseDigits(Tail(stem), out * 10 + DigitValue(stem[1]))

\* the id after the base in "<base>/<id>.json", NoRef when the uri is not
\* of that form or the id is 0
parse_ref_id_from_uri_bytes(uri, uri_base) ==
    IF ends_with(uri_base, DOT_JSON) THEN NoRef
    ELSE IF ~starts_with(uri, uri_base) THEN NoRef
    ELSE LET rest0 == SubSeq(uri, Len(uri_base) + 1, Len(uri))
             cut   == ~ends_with(uri_base, SLASH)
         IN  IF cut /\ (rest0 = <<>> \/ rest0[1] # "/") THEN NoRef
             ELSE LET rest == IF cut THEN Tail(rest0) ELSE rest0 IN
                  IF Len(rest) < 5 \/ ~ends_with(rest, DOT_JSON) THEN NoRef
                  ELSE LET stem == SubSeq(rest, 1, Len(rest) - 5) IN
                       IF stem = <<>> \/ (\E i \in 1..Len(stem) : stem[i] = "/")
                       THEN NoRef
                       ELSE ParseDigits(stem, 0)

\* an account of the registry whose asset was burned keeps its address
Burned ==
    [owner |-> DEFAULT_PUBKEY, ua_kind |-> 0, ua |-> DEFAULT_PUBKEY,
     name |-> <<>>, uri |-> <<>>]

\* fault: the uri of the asset not looked at
verify_core_asset_NoUri(ast, key, owner, core_collection, expected_uri_base, expected_ref_id) ==
    IF RemainingOwner(key, ast) # MPL_CORE_PROGRAM_ID THEN "InvalidAsset"
    ELSE IF ast[key] = Burned THEN "InvalidAsset"
    ELSE IF ast[key].owner # owner THEN "InvalidAssetOwner"
    ELSE IF ~(ast[key].ua_kind = 2 /\ ast[key].ua = core_collection)
         THEN "InvalidAssetCollection"
    ELSE "Ok"

\* the account is of the registry, holds an AssetV1 owned by `owner` in the
\* collection, and its uri is of the expected base (and id, unless NoRef)
verify_core_asset_owned_by_uri(ast, key, owner, core_collection, expected_uri_base, expected_ref_id) ==
    IF RemainingOwner(key, ast) # MPL_CORE_PROGRAM_ID THEN "InvalidAsset"
    ELSE IF ast[key] = Burned THEN "InvalidAsset"
    ELSE IF ast[key].owner # owner THEN "InvalidAssetOwner"
    ELSE IF ~(ast[key].ua_kind = 2 /\ ast[key].ua = core_collection)
         THEN "InvalidAssetCollection"
    ELSE IF ends_with(expected_uri_base, DOT_JSON)
         THEN IF ast[key].uri # expected_uri_base THEN "InvalidAssetMetadata"
              ELSE IF expected_ref_id # NoRef THEN "InvalidAssetMetadata"
              ELSE "Ok"
    ELSE LET parsed == parse_ref_id_from_uri_bytes(ast[key].uri,
                                                  expected_uri_base)
         IN  IF parsed = NoRef THEN "InvalidAssetMetadata"
             ELSE IF expected_ref_id # NoRef /\ parsed # expected_ref_id
                  THEN "InvalidAssetMetadata"
             ELSE "Ok"

\* fault: a base without "boxes" kept as it is
derive_figures_FallsBack(boxes_uri_base) ==
    IF ends_with(boxes_uri_base, DOT_JSON)
    THEN [err |-> "InvalidFigureUriBase", out |-> <<>>]
    ELSE LET out == replace(boxes_uri_base, BOXES, FIGURES)
         IN  [err |-> "Ok",
              out |-> IF ends_with(out, SLASH) THEN out ELSE out \o SLASH]

\* the base of the figure URIs, made from the base of the box URIs
derive_figures_uri_base(boxes_uri_base) ==
    IF ends_with(boxes_uri_base, DOT_JSON)
    THEN [err |-> "InvalidFigureUriBase", out |-> <<>>]
    ELSE LET out ==
               IF contains(boxes_uri_base, JSON_DIR \o SLASH \o BOXES \o SLASH)
               THEN replace(boxes_uri_base, JSON_DIR \o SLASH \o BOXES \o SLASH,
                            JSON_DIR \o SLASH \o FIGURES \o SLASH)
               ELSE IF contains(boxes_uri_base, SLASH \o BOXES \o SLASH)
               THEN replace(boxes_uri_base, SLASH \o BOXES \o SLASH,
                            SLASH \o FIGURES \o SLASH)
               ELSE IF contains(boxes_uri_base, BOXES)
               THEN replace(boxes_uri_base, BOXES, FIGURES)
               ELSE <<>>
         IN  IF ~contains(boxes_uri_base, BOXES)
             THEN [err |-> "InvalidFigureUriBase", out |-> <<>>]
             ELSE [err |-> "Ok",
                   out |-> IF ends_with(out, SLASH) THEN out ELSE out \o SLASH]

\* the uri is one a box of this shop carries
MatchesBoxTemplate(cfg, uri) ==
    IF ends_with(cfg.uri_base, DOT_JSON) THEN uri = cfg.uri_base
    ELSE parse_ref_id_from_uri_bytes(uri, cfg.uri_base) # NoRef

\* the uri is one a figure of this shop carries
MatchesFigureTemplate(cfg, uri) ==
    /\ derive_figures_uri_base(cfg.uri_base).err = "Ok"
    /\ parse_ref_id_from_uri_bytes(
            uri, derive_figures_uri_base(cfg.uri_base).out) # NoRef

---------------------------------------------------------------------------
\* Properties of deliver and close_delivery.

IsDeliver == last.op = "deliver" /\ last.pre.config.exists
DeliverOk == IsDeliver /\ last.err = "Ok"
IsClose == last.op = "close_delivery" /\ last.pre.config.exists

\* every account of the call is the configured one and the record address
\* is the one derived from the id and bump sent
WellAddressed ==
    /\ last.args.treasury = last.pre.config.treasury
    /\ last.args.core_collection = last.pre.config.core_collection
    /\ last.args.mpl_core_program = MPL_CORE_PROGRAM_ID
    /\ last.args.log_wrapper = SPL_NOOP_PROGRAM_ID

FeeInBand(fee) ==
    fee >= MIN_DELIVERY_LAMPORTS /\ fee <= MAX_DELIVERY_LAMPORTS

\* C15: no two successful deliver calls carry the same delivery_id, so the
\* fee is charged once and the items are escrowed once per delivery_id;
\* a deliver call that repeats a successful one fails with
\* DeliveryAlreadyExists.
C15_OncePerDeliveryId ==
    /\ \A i, j \in 1..Len(delivered) :
          i < j => delivered[i].delivery_id # delivered[j].delivery_id
    /\ (IsDeliver /\ last.err # "Ok"
          /\ \E k \in 1..Len(delivered) : delivered[k] = last.args)
         => last.err = "DeliveryAlreadyExists"

\* C16: deliver signed by another cosigner than config.admin, or with a
\* fee outside 1_000_000..3_000_000, fails and changes nothing; a deliver
\* that succeeds is cosigned by the admin with a fee in the band, takes
\* exactly that fee (and the rent of the record) from the payer, adds
\* exactly that fee to config.treasury, and stores it in the record.
C16_FeeSetByCosigner ==
    IsDeliver =>
        LET a == last.args
            fee == a.delivery_fee_lamports
            t == last.pre.config.treasury
        IN  /\ (a.cosigner # last.pre.config.admin \/ ~FeeInBand(fee))
                  => last.err # "Ok" /\ Untouched
            /\ last.err = "Ok"
                  => /\ a.cosigner = last.pre.config.admin
                     /\ FeeInBand(fee)
                     /\ a.delivery \in DOMAIN deliveries
                     /\ deliveries[a.delivery].delivery_fee_lamports = fee
                     /\ a.payer # t
                          => /\ lamports[t] = last.pre.lamports[t] + fee
                             /\ lamports[a.payer] =
                                   last.pre.lamports[a.payer] - fee - DeliveryRent
                     /\ a.payer = t
                          => lamports[t] = last.pre.lamports[t] - DeliveryRent
                     /\ \A w \in Wallets \ {t, a.payer} :
                            lamports[w] = last.pre.lamports[w]

\* a holder has paid the fee at the top of the band to the vault
C16_TopFeePaidToVault ==
    /\ DeliverOk
    /\ last.args.payer = "alice" /\ last.pre.config.treasury = "vault"
    /\ last.args.delivery_fee_lamports = MAX_DELIVERY_LAMPORTS
    /\ lamports["vault"] = last.pre.lamports["vault"] + MAX_DELIVERY_LAMPORTS

\* C17: a deliver call that is otherwise in order succeeds only with 1 to
\* 32 item accounts, and with none or with more than 32 (256 and more
\* included) it fails with InvalidQuantity.
C17_ItemCapForEveryCount ==
    (IsDeliver /\ WellAddressed
       /\ last.args.cosigner = last.pre.config.admin
       /\ FeeInBand(last.args.delivery_fee_lamports))
        => LET n == Len(last.args.remaining) IN
           /\ last.err = "Ok"
                 => (1 <= n /\ n <= MAX_SAFE_DELIVERY_ITEMS_PER_TX)
           /\ (n = 0 \/ n > MAX_SAFE_DELIVERY_ITEMS_PER_TX)
                 => last.err = "InvalidQuantity"

\* the item is an asset of the payer, in the configured collection, with
\* the uri of a box or of a figure of this shop
VerifiedItem(s, payer, key) ==
    /\ key \in DOMAIN s.assets
    /\ s.assets[key] # Burned
    /\ s.assets[key].owner = payer
    /\ s.assets[key].ua_kind = 2
    /\ s.assets[key].ua = s.config.core_collection
    /\ \/ MatchesBoxTemplate(s.config, s.assets[key].uri)
       \/ MatchesFigureTemplate(s.config, s.assets[key].uri)

\* C18: a deliver call succeeds only if every item is an asset owned by the
\* payer, in the configured collection, whose URI matches the box or the
\* figure URI template; with an item failing one of the three the call
\* fails, no fee is taken and no record is created.
C18_EveryItemVerified ==
    IsDeliver =>
        LET bad == \E i \in 1..Len(last.args.remaining) :
                      ~VerifiedItem(last.pre, last.args.payer,
                                    last.args.remaining[i])
        IN  /\ last.err = "Ok" => ~bad
            /\ bad => last.err # "Ok" /\ Untouched

RECURSIVE SumOver(_, _)
\* the sum of f over the keys in S
SumOver(f, S) ==
    IF S = {} THEN 0
    ELSE LET k == CHOOSE x \in S : TRUE IN f[k] + SumOver(f, S \ {k})

\* all the lamports there are: in the wallets and in the delivery records
TotalLamports(s) ==
    SumOver(s.lamports, DOMAIN s.lamports)
        + SumOver([k \in DOMAIN s.deliveries |-> s.deliveries[k].lamports],
                  DOMAIN s.deliveries)

\* C19: every delivery record was created by a successful deliver call and
\* stores its payer, its fee and the number of its items; a deliver call
\* that succeeds has created the record, moved the fee to config.treasury
\* and every listed item into the ownership of config.treasury, all at
\* once; one that fails at the fee or at an item leaves no record, keeps
\* no fee and moves no item.
C19_RecordMeansPaidAndEscrowed ==
    /\ \A d \in DOMAIN deliveries :
          \E k \in 1..Len(delivered) :
             /\ delivered[k].delivery = d
             /\ deliveries[d].payer = delivered[k].payer
             /\ deliveries[d].delivery_fee_lamports =
                    delivered[k].delivery_fee_lamports
             /\ deliveries[d].item_count = Len(delivered[k].remaining)
    /\ IsDeliver =>
          LET a == last.args
              t == last.pre.config.treasury
          IN  /\ last.err = "Ok"
                    => /\ a.delivery \notin DOMAIN last.pre.deliveries
                       /\ a.delivery \in DOMAIN deliveries
                       /\ delivered[Len(delivered)] = a
                       /\ lamports[t] =
                             last.pre.lamports[t]
                               + (IF a.payer = t THEN 0 - DeliveryRent
                                  ELSE a.delivery_fee_lamports)
                       /\ deliveries[a.delivery].delivery_fee_lamports =
                             a.delivery_fee_lamports
                       /\ \A i \in 1..Len(a.remaining) :
                             /\ last.pre.assets[a.remaining[i]].owner = a.payer
                             /\ assets[a.remaining[i]].owner = t
                       /\ TotalLamports(Chain) = TotalLamports(last.pre)
              /\ last.err # "Ok" => Untouched

\* a deliver of two boxes has stopped at the second, after the record was
\* written, the fee taken and the first box moved: nothing of it is left
C19_StoppedAtSecondItem ==
    /\ IsDeliver
    /\ last.err = "CoreTransferFailed"
    /\ last.ev = <<"rent", "record", "fee", "escrow">>
    /\ last.args.delivery \notin DOMAIN deliveries
    /\ Untouched

\* C20: close_delivery fails and changes nothing when the cosigner is not
\* config.admin, when the address passed is not the one derived from
\* "delivery", delivery_id and delivery_bump, or when no record of this
\* program is at the address (never created, or closed already); when it
\* succeeds the record is gone, config.treasury holds the lamports the
\* record held on top of its own, and no lamport is made or lost.
C20_CloseDeliveryChecked ==
    IsClose =>
        LET a == last.args
            t == last.pre.config.treasury
            expected == delivery_address(a.delivery_id, a.delivery_bump)
        IN  /\ (\/ a.cosigner # last.pre.config.admin
                \/ expected = NoAddress
                \/ a.delivery # expected
                \/ a.delivery \notin DOMAIN last.pre.deliveries)
                  => last.err # "Ok" /\ Untouched
            /\ last.err = "Ok"
                  => /\ a.delivery \notin DOMAIN deliveries
                     /\ DOMAIN deliveries =
                           DOMAIN last.pre.deliveries \ {a.delivery}
                     /\ lamports[t] =
                           last.pre.lamports[t]
                             + last.pre.deliveries[a.delivery].lamports
                     /\ \A w \in Wallets \ {t} :
                           lamports[w] = last.pre.lamports[w]
                     /\ TotalLamports(Chain) = TotalLamports(last.pre)
                     /\ assets = last.pre.assets
                     /\ config = last.pre.config

\* the admin has closed the record of a delivery and the vault holds its
\* rent on top of the fee
C20_RentReclaimedByVault ==
    /\ IsClose /\ last.err = "Ok"
    /\ last.pre.config.treasury = "vault"
    /\ last.pre.deliveries[last.args.delivery].lamports = DeliveryRent
    /\ lamports["vault"] = last.pre.lamports["vault"] + DeliveryRent
    /\ deliveries = <<>>

---------------------------------------------------------------------------
\* start_open_box, finalize_open_box and mint_receipts.
\*
\* A pending record is an account of this program at the address found
\* from "open" and the box; the three placeholder figures of the box are at
\* the addresses found from "pdude", the pending address and 0, 1, 2.

DUDES_PER_BOX == 3
MAX_DUDE_ID == 999
SEED_PENDING_OPEN == "open"
SEED_PENDING_DUDE_ASSET == "pdude"
CONFIG_PDA == <<SEED_CONFIG>>
MPL_NOOP_PROGRAM_ID == "mpl_noop"
MPL_ACCOUNT_COMPRESSION_PROGRAM_ID == "mpl_account_compression"
BUBBLEGUM_PROGRAM_ID == "bubblegum"
MPL_CORE_CPI_SIGNER == "mpl_core_cpi_signer"

\* Rent::get()?.minimum_balance(PendingOpenBox::SPACE), paid by `init`
PendingRent == 3

\* the most receipts one mint_receipts call may ask for
ReceiptsCap == 24

\* Pubkey::find_program_address(seeds): the address of the canonical bump
find_program_address(tag, key, i) ==
    create_program_address(tag, key, 0, i, canonical_bump(tag, key, 0, i))

pending_address(box_asset) == find_program_address(SEED_PENDING_OPEN, box_asset, 0)

pending_dude_address(pending_key, i) ==
    find_program_address(SEED_PENDING_DUDE_ASSET, pending_key, i)

\* the three placeholder addresses of a box, in order
DudeAddresses(box_asset) ==
    [k \in 1..DUDES_PER_BOX |->
        pending_dude_address(pending_address(box_asset), k - 1)]

\* no instruction follows in the transaction
NoIx == [program_id |-> "none"]

\* AccountMeta
Meta(pubkey, is_signer) == [pubkey |-> pubkey, is_signer |-> is_signer]

\* the MPL-Core TransferV1 instruction a client puts after start_open_box:
\* discriminator 14, no compression proof; asset, collection, payer,
\* authority, new owner
TransferIx(asset, collection, owner, new_owner) ==
    [program_id |-> MPL_CORE_PROGRAM_ID, data |-> <<14, 0>>,
     accounts |-> << Meta(asset, FALSE), Meta(collection, FALSE),
                     Meta(owner, TRUE), Meta(owner, TRUE),
                     Meta(new_owner, FALSE) >>]

\* fault: the new owner of the transfer not looked at
require_next_ix_AnyNewOwner(ix, asset, core_collection, owner, new_owner) ==
    IF ix = NoIx THEN "MissingTransferInstruction"
    ELSE IF ix.program_id # MPL_CORE_PROGRAM_ID THEN "InvalidTransferInstruction"
    ELSE IF ~(Len(ix.data) >= 2) THEN "InvalidTransferInstruction"
    ELSE IF ~(ix.data[1] = 14 /\ ix.data[2] = 0) THEN "InvalidTransferInstruction"
    ELSE IF Len(ix.accounts) < 1 THEN "InvalidTransferInstruction"
    ELSE IF ix.accounts[1].pubkey # asset THEN "InvalidTransferInstruction"
    ELSE IF Len(ix.accounts) < 2 THEN "InvalidTransferInstruction"
    ELSE IF ix.accounts[2].pubkey # core_collection
         THEN "InvalidTransferInstruction"
    ELSE IF Len(ix.accounts) < 3 THEN "InvalidTransferInstruction"
    ELSE IF ix.accounts[3].pubkey # owner THEN "InvalidTransferInstruction"
    ELSE IF ~ix.accounts[3].is_signer THEN "InvalidTransferInstruction"
    ELSE IF Len(ix.accounts) < 4 THEN "InvalidTransferInstruction"
    ELSE IF ix.accounts[4].pubkey # owner THEN "InvalidTransferInstruction"
    ELSE IF ~ix.accounts[4].is_signer THEN "InvalidTransferInstruction"
    ELSE IF Len(ix.accounts) < 5 THEN "InvalidTransferInstruction"
    ELSE "Ok"

\* the next instruction of the transaction must be a TransferV1 of the box
\* in the collection, by its owner, to the new owner
require_next_ix_is_mpl_core_transfer_of_asset_to(ix, asset, core_collection, owner, new_owner) ==
    IF ix = NoIx THEN "MissingTransferInstruction"
    ELSE IF ix.program_id # MPL_CORE_PROGRAM_ID THEN "InvalidTransferInstruction"
    ELSE IF ~(Len(ix.data) >= 2) THEN "InvalidTransferInstruction"
    ELSE IF ~(ix.data[1] = 14 /\ ix.data[2] = 0) THEN "InvalidTransferInstruction"
    ELSE IF Len(ix.accounts) < 1 THEN "InvalidTransferInstruction"
    ELSE IF ix.accounts[1].pubkey # asset THEN "InvalidTransferInstruction"
    ELSE IF Len(ix.accounts) < 2 THEN "InvalidTransferInstruction"
    ELSE IF ix.accounts[2].pubkey # core_collection
         THEN "InvalidTransferInstruction"
    ELSE IF Len(ix.accounts) < 3 THEN "InvalidTransferInstruction"
    ELSE IF ix.accounts[3].pubkey # owner THEN "InvalidTransferInstruction"
    ELSE IF ~ix.accounts[3].is_signer THEN "InvalidTransferInstruction"
    ELSE IF Len(ix.accounts) < 4 THEN "InvalidTransferInstruction"
    ELSE IF ix.accounts[4].pubkey # owner THEN "InvalidTransferInstruction"
    ELSE IF ~ix.accounts[4].is_signer THEN "InvalidTransferInstruction"
    ELSE IF Len(ix.accounts) < 5 THEN "InvalidTransferInstruction"
    ELSE IF ix.accounts[5].pubkey # new_owner THEN "InvalidTransferInstruction"
    ELSE "Ok"

\* #[derive(Accounts)] StartOpenBox: the configured treasury and
\* collection, and a pending account at the address of the box that `init`
\* can create with the payer's lamports
StartOpenBoxAccounts(s, a) ==
    IF ~s.config.exists THEN "AccountNotInitialized"
    ELSE IF a.treasury # s.config.treasury THEN "ConstraintAddress"
    ELSE IF a.core_collection # s.config.core_collection THEN "ConstraintAddress"
    ELSE IF a.pending # pending_address(a.box_asset) THEN "ConstraintSeeds"
    ELSE IF a.pending \in DOMAIN s.pendings THEN "AccountAlreadyInUse"
    ELSE IF s.lamports[a.payer] < PendingRent THEN "CreateAccountFailed"
    ELSE "Ok"

\* the checks of start_open_box before the loop
StartOpenBoxChecks(s, a) ==
    IF a.mpl_core_program # MPL_CORE_PROGRAM_ID THEN "InvalidMplCoreProgram"
    ELSE IF verify_core_asset_owned_by_uri(s.assets, a.box_asset, a.payer,
                s.config.core_collection, s.config.uri_base, NoRef) # "Ok"
         THEN verify_core_asset_owned_by_uri(s.assets, a.box_asset, a.payer,
                s.config.core_collection, s.config.uri_base, NoRef)
    ELSE IF require_next_ix_is_mpl_core_transfer_of_asset_to(a.next_ix,
                a.box_asset, a.core_collection, a.payer, s.config.treasury) # "Ok"
         THEN require_next_ix_is_mpl_core_transfer_of_asset_to(a.next_ix,
                a.box_asset, a.core_collection, a.payer, s.config.treasury)
    ELSE IF Len(a.remaining) # DUDES_PER_BOX THEN "InvalidRemainingAccounts"
    ELSE "Ok"

\* fault: the placeholder given to the payer
Placeholder_OwnedByPayer(a) ==
    [owner |-> a.payer, ua_kind |-> 1, ua |-> CONFIG_PDA,
     name |-> <<>>, uri |-> <<>>]

\* the asset CreateV1 makes for a placeholder: owned by the treasury, no
\* collection, the config account as update authority, empty name and uri
Placeholder(a) ==
    [owner |-> a.treasury, ua_kind |-> 1, ua |-> CONFIG_PDA,
     name |-> <<>>, uri |-> <<>>]

\* one iteration of the loop of start_open_box
DudeOne(s, a, i, r) ==
    LET expected == pending_dude_address(a.pending, i)
        key      == a.remaining[i + 1]
    IN  IF key # expected THEN [r EXCEPT !.err = "InvalidAssetPda"]
        ELSE IF RemainingOwner(key, r.assets) # SYSTEM_PROGRAM_ID
             THEN [r EXCEPT !.err = "InvalidAssetPda"]
        ELSE [r EXCEPT !.assets = (key :> Placeholder(a)) @@ @,
                       !.ev = Append(@, <<"create", key, 0>>)]

RECURSIVE DudeLoop(_, _, _, _)
\* for i in 0..DUDES_PER_BOX, leaving at the first error
DudeLoop(s, a, i, r) ==
    IF i >= DUDES_PER_BOX \/ r.err # "Ok" THEN r
    ELSE DudeLoop(s, a, i + 1, DudeOne(s, a, i, r))

\* the pending account made by `init` with the payer's lamports, holding
\* the record the handler writes at its end
WritePending(s, a, r) ==
    [r EXCEPT
        !.lamports = [@ EXCEPT ![a.payer] = @ - PendingRent],
        !.pendings = (a.pending :>
            [owner |-> a.payer, box_asset |-> a.box_asset,
             dudes |-> [k \in 1..DUDES_PER_BOX |->
                          pending_dude_address(a.pending, k - 1)],
             lamports |-> PendingRent]) @@ @,
        !.ev = Append(@, <<"pending", a.pending>>)]

start_open_box(s, a) ==
    IF StartOpenBoxAccounts(s, a) # "Ok"
    THEN Refuse(s, StartOpenBoxAccounts(s, a))
    ELSE IF StartOpenBoxChecks(s, a) # "Ok"
         THEN Refuse(s, StartOpenBoxChecks(s, a))
    ELSE LET made == DudeLoop(s, a, 0, Begin(s)) IN
         IF made.err # "Ok" THEN made ELSE WritePending(s, a, made)

\* fault: what start_open_box did kept when the transfer after it fails
StartOpenBoxTx_KeptOnFailure(s, a) ==
    LET r   == start_open_box(s, a)
        acc == a.next_ix.accounts
    IN  IF r.err # "Ok" THEN r
        ELSE IF a.transfer_refused THEN r
        ELSE IF ~CoreTransferAllowed(r.assets, acc[1].pubkey, acc[2].pubkey,
                                     acc[4].pubkey)
             THEN r
        ELSE [r EXCEPT !.assets = [@ EXCEPT ![acc[1].pubkey].owner =
                                                acc[5].pubkey],
                       !.ev = Append(@, <<"escrow", acc[1].pubkey>>)]

\* the transaction of a box being opened: start_open_box, then the
\* instruction that follows it, executed by the registry, which may refuse
\* it for reasons of its own (transfer_refused: a frozen asset)
StartOpenBoxTx(s, a) ==
    LET r   == start_open_box(s, a)
        acc == a.next_ix.accounts
    IN  IF r.err # "Ok" THEN r
        ELSE IF a.transfer_refused THEN [r EXCEPT !.err = "CoreTransferFailed"]
        ELSE IF ~CoreTransferAllowed(r.assets, acc[1].pubkey, acc[2].pubkey,
                                     acc[4].pubkey)
             THEN [r EXCEPT !.err = "CoreTransferFailed"]
        ELSE [r EXCEPT !.assets = [@ EXCEPT ![acc[1].pubkey].owner =
                                                acc[5].pubkey],
                       !.ev = Append(@, <<"escrow", acc[1].pubkey>>)]

\* #[derive(Accounts)] FinalizeOpenBox: the configured collection, the log
\* wrapper, and an existing pending account at the address of the box
FinalizeOpenBoxAccounts(s, a) ==
    IF ~s.config.exists THEN "AccountNotInitialized"
    ELSE IF a.core_collection # s.config.core_collection THEN "ConstraintAddress"
    ELSE IF a.log_wrapper # SPL_NOOP_PROGRAM_ID THEN "ConstraintAddress"
    ELSE IF a.pending \notin DOMAIN s.pendings THEN "AccountNotInitialized"
    ELSE IF a.pending # pending_address(a.box_asset) THEN "ConstraintSeeds"
    ELSE "Ok"

\* fault: the remaining accounts compared with the recorded addresses as a
\* set, whatever their order
FinalizeOpenBoxChecks_AnyOrder(s, a) ==
    LET pending == s.pendings[a.pending] IN
    IF a.cosigner # s.config.admin THEN "InvalidCosigner"
    ELSE IF a.cosigner # s.config.treasury THEN "InvalidCosigner"
    ELSE IF a.mpl_core_program # MPL_CORE_PROGRAM_ID THEN "InvalidMplCoreProgram"
    ELSE IF a.log_wrapper # SPL_NOOP_PROGRAM_ID THEN "InvalidLogWrapper"
    ELSE IF \E k \in 1..DUDES_PER_BOX :
                ~(a.dude_ids[k] >= 1 /\ a.dude_ids[k] <= MAX_DUDE_ID)
         THEN "InvalidDudeId"
    ELSE IF ~(/\ a.dude_ids[1] # a.dude_ids[2]
              /\ a.dude_ids[1] # a.dude_ids[3]
              /\ a.dude_ids[2] # a.dude_ids[3])
         THEN "DuplicateDudeId"
    ELSE IF pending.box_asset # a.box_asset THEN "InvalidPendingRecord"
    ELSE IF a.user # pending.owner THEN "InvalidPendingRecord"
    ELSE IF Len(a.remaining) # DUDES_PER_BOX THEN "InvalidRemainingAccounts"
    ELSE IF \E k \in 1..DUDES_PER_BOX :
                \A j \in 1..DUDES_PER_BOX : a.remaining[k] # pending.dudes[j]
         THEN "InvalidRemainingAccounts"
    ELSE verify_core_asset_owned_by_uri(s.assets, a.box_asset,
             s.config.treasury, s.config.core_collection, s.config.uri_base,
             NoRef)

\* fault: only the first two ids compared with each other
FinalizeOpenBoxChecks_PairOnly(s, a) ==
    LET pending == s.pendings[a.pending] IN
    IF a.cosigner # s.config.admin THEN "InvalidCosigner"
    ELSE IF a.cosigner # s.config.treasury THEN "InvalidCosigner"
    ELSE IF a.mpl_core_program # MPL_CORE_PROGRAM_ID THEN "InvalidMplCoreProgram"
    ELSE IF a.log_wrapper # SPL_NOOP_PROGRAM_ID THEN "InvalidLogWrapper"
    ELSE IF \E k \in 1..DUDES_PER_BOX :
                ~(a.dude_ids[k] >= 1 /\ a.dude_ids[k] <= MAX_DUDE_ID)
         THEN "InvalidDudeId"
    ELSE IF ~(a.dude_ids[1] # a.dude_ids[2]) THEN "DuplicateDudeId"
    ELSE IF pending.box_asset # a.box_asset THEN "InvalidPendingRecord"
    ELSE IF a.user # pending.owner THEN "InvalidPendingRecord"
    ELSE IF Len(a.remaining) # DUDES_PER_BOX THEN "InvalidRemainingAccounts"
    ELSE IF \E k \in 1..DUDES_PER_BOX : a.remaining[k] # pending.dudes[k]
         THEN "InvalidRemainingAccounts"
    ELSE verify_core_asset_owned_by_uri(s.assets, a.box_asset,
             s.config.treasury, s.config.core_collection, s.config.uri_base,
             NoRef)

\* fault: the cosigner compared with the treasury only
FinalizeOpenBoxChecks_TreasuryOnly(s, a) ==
    LET pending == s.pendings[a.pending] IN
    IF a.cosigner # s.config.treasury THEN "InvalidCosigner"
    ELSE IF a.mpl_core_program # MPL_CORE_PROGRAM_ID THEN "InvalidMplCoreProgram"
    ELSE IF a.log_wrapper # SPL_NOOP_PROGRAM_ID THEN "InvalidLogWrapper"
    ELSE IF \E k \in 1..DUDES_PER_BOX :
                ~(a.dude_ids[k] >= 1 /\ a.dude_ids[k] <= MAX_DUDE_ID)
         THEN "InvalidDudeId"
    ELSE IF ~(/\ a.dude_ids[1] # a.dude_ids[2]
              /\ a.dude_ids[1] # a.dude_ids[3]
              /\ a.dude_ids[2] # a.dude_ids[3])
         THEN "DuplicateDudeId"
    ELSE IF pending.box_asset # a.box_asset THEN "InvalidPendingRecord"
    ELSE IF a.user # pending.owner THEN "InvalidPendingRecord"
    ELSE IF Len(a.remaining) # DUDES_PER_BOX THEN "InvalidRemainingAccounts"
    ELSE IF \E k \in 1..DUDES_PER_BOX : a.remaining[k] # pending.dudes[k]
         THEN "InvalidRemainingAccounts"
    ELSE verify_core_asset_owned_by_uri(s.assets, a.box_asset,
             s.config.treasury, s.config.core_collection, s.config.uri_base,
             NoRef)

\* the checks of finalize_open_box, in the order of the code
FinalizeOpenBoxChecks(s, a) ==
    LET pending == s.pendings[a.pending] IN
    IF a.cosigner # s.config.admin THEN "InvalidCosigner"
    ELSE IF a.cosigner # s.config.treasury THEN "InvalidCosigner"
    ELSE IF a.mpl_core_program # MPL_CORE_PROGRAM_ID THEN "InvalidMplCoreProgram"
    ELSE IF a.log_wrapper # SPL_NOOP_PROGRAM_ID THEN "InvalidLogWrapper"
    ELSE IF \E k \in 1..DUDES_PER_BOX :
                ~(a.dude_ids[k] >= 1 /\ a.dude_ids[k] <= MAX_DUDE_ID)
         THEN "InvalidDudeId"
    ELSE IF ~(/\ a.dude_ids[1] # a.dude_ids[2]
              /\ a.dude_ids[1] # a.dude_ids[3]
              /\ a.dude_ids[2] # a.dude_ids[3])
         THEN "DuplicateDudeId"
    ELSE IF pending.box_asset # a.box_asset THEN "InvalidPendingRecord"
    ELSE IF a.user # pending.owner THEN "InvalidPendingRecord"
    ELSE IF Len(a.remaining) # DUDES_PER_BOX THEN "InvalidRemainingAccounts"
    ELSE IF \E k \in 1..DUDES_PER_BOX : a.remaining[k] # pending.dudes[k]
         THEN "InvalidRemainingAccounts"
    ELSE verify_core_asset_owned_by_uri(s.assets, a.box_asset,
             s.config.treasury, s.config.core_collection, s.config.uri_base,
             NoRef)

\* fault: the burned box taken off the count of boxes sold
BurnBox_Uncounts(s, a, r) ==
    IF ~CoreTransferAllowed(r.assets, a.box_asset, a.core_collection, a.cosigner)
    THEN [r EXCEPT !.err = "CoreBurnFailed"]
    ELSE [r EXCEPT !.assets = [@ EXCEPT ![a.box_asset] = Burned],
                   !.config = [@ EXCEPT !.minted = @ - 1],
                   !.ev = Append(@, <<"burn", a.box_asset>>)]

\* fault: the box left as it is
BurnBox_Kept(s, a, r) ==
    IF ~CoreTransferAllowed(r.assets, a.box_asset, a.core_collection, a.cosigner)
    THEN [r EXCEPT !.err = "CoreBurnFailed"]
    ELSE [r EXCEPT !.ev = Append(@, <<"burn", a.box_asset>>)]

\* MPL-Core BurnV1 of the box by the cosigner
BurnBox(s, a, r) ==
    IF ~CoreTransferAllowed(r.assets, a.box_asset, a.core_collection, a.cosigner)
    THEN [r EXCEPT !.err = "CoreBurnFailed"]
    ELSE [r EXCEPT !.assets = [@ EXCEPT ![a.box_asset] = Burned],
                   !.ev = Append(@, <<"burn", a.box_asset>>)]

\* name_buf and uri_buf of finalize_open_box
figure_name(dude_id) == <<"mons figure #">> \o Dec(dude_id)
figure_uri(figures_uri_base, dude_id) ==
    figures_uri_base \o Dec(dude_id) \o DOT_JSON

\* fault: the revealed figure left with the cosigner
RevealOne_KeptByCosigner(s, a, i, r, figures_uri_base) ==
    LET key == a.remaining[i + 1] IN
    IF ~(/\ key \in DOMAIN r.assets
         /\ r.assets[key].ua_kind = 1
         /\ r.assets[key].ua = CONFIG_PDA)
    THEN [r EXCEPT !.err = "CoreUpdateFailed"]
    ELSE [r EXCEPT
            !.assets = [@ EXCEPT ![key] =
                          [@ EXCEPT
                             !.name = figure_name(a.dude_ids[i + 1]),
                             !.uri = figure_uri(figures_uri_base,
                                                a.dude_ids[i + 1]),
                             !.ua_kind = 2,
                             !.ua = a.core_collection]],
            !.ev = Append(@, <<"reveal", key, a.dude_ids[i + 1]>>)]

\* one iteration of the loop of finalize_open_box: UpdateV2 signed by the
\* config account gives the placeholder its name and uri and puts it in
\* the collection, TransferV1 signed by the cosigner gives it to the user
RevealOne(s, a, i, r, figures_uri_base) ==
    LET key == a.remaining[i + 1] IN
    IF ~(/\ key \in DOMAIN r.assets
         /\ r.assets[key].ua_kind = 1
         /\ r.assets[key].ua = CONFIG_PDA)
    THEN [r EXCEPT !.err = "CoreUpdateFailed"]
    ELSE LET revealed ==
               [r.assets[key] EXCEPT
                   !.name = figure_name(a.dude_ids[i + 1]),
                   !.uri = figure_uri(figures_uri_base, a.dude_ids[i + 1]),
                   !.ua_kind = 2,
                   !.ua = a.core_collection]
         IN  IF revealed.owner # a.cosigner
             THEN [r EXCEPT !.err = "CoreTransferFailed"]
             ELSE [r EXCEPT
                     !.assets = [@ EXCEPT ![key] =
                                    [revealed EXCEPT !.owner = a.user]],
                     !.ev = @ \o << <<"reveal", key, a.dude_ids[i + 1]>>,
                                    <<"give", key, a.user>> >>]

RECURSIVE RevealLoop(_, _, _, _, _)
\* for i in 0..DUDES_PER_BOX, leaving at the first error
RevealLoop(s, a, i, r, figures_uri_base) ==
    IF i >= DUDES_PER_BOX \/ r.err # "Ok" THEN r
    ELSE RevealLoop(s, a, i + 1, RevealOne(s, a, i, r, figures_uri_base),
                    figures_uri_base)

\* fault: the pending account left open
ClosePending_Keeps(s, a, r) ==
    [r EXCEPT !.ev = Append(@, <<"closed", a.pending>>)]

\* close = cosigner: the lamports of the pending account go to the cosigner
\* and the account is gone
ClosePending(s, a, r) ==
    [r EXCEPT
        !.lamports = [@ EXCEPT ![a.cosigner] =
                                   @ + r.pendings[a.pending].lamports],
        !.pendings = [k \in DOMAIN r.pendings \ {a.pending} |-> r.pendings[k]],
        !.ev = Append(@, <<"closed", a.pending>>)]

finalize_open_box(s, a) ==
    IF FinalizeOpenBoxAccounts(s, a) # "Ok"
    THEN Refuse(s, FinalizeOpenBoxAccounts(s, a))
    ELSE IF FinalizeOpenBoxChecks(s, a) # "Ok"
         THEN Refuse(s, FinalizeOpenBoxChecks(s, a))
    ELSE LET burned == BurnBox(s, a, Begin(s)) IN
         IF burned.err # "Ok" THEN burned
         ELSE LET base == derive_figures_uri_base(s.config.uri_base) IN
              IF base.err # "Ok" THEN [burned EXCEPT !.err = base.err]
              ELSE LET given == RevealLoop(s, a, 0, burned, base.out) IN
                   IF given.err # "Ok" THEN given
                   ELSE ClosePending(s, a, given)

\* the base of the receipt URIs of boxes and of figures, made from the base
\* of the box URIs: `sub` takes the place of "boxes"
derive_receipts_uri_base(boxes_uri_base, sub) ==
    IF ends_with(boxes_uri_base, DOT_JSON)
    THEN [err |-> "InvalidReceiptUriBase", out |-> <<>>]
    ELSE IF ~contains(boxes_uri_base, BOXES)
    THEN [err |-> "InvalidReceiptUriBase", out |-> <<>>]
    ELSE LET out ==
               IF contains(boxes_uri_base, JSON_DIR \o SLASH \o BOXES \o SLASH)
               THEN replace(boxes_uri_base, JSON_DIR \o SLASH \o BOXES \o SLASH,
                            JSON_DIR \o SLASH \o sub \o SLASH)
               ELSE IF contains(boxes_uri_base, SLASH \o BOXES \o SLASH)
               THEN replace(boxes_uri_base, SLASH \o BOXES \o SLASH,
                            SLASH \o sub \o SLASH)
               ELSE replace(boxes_uri_base, BOXES, sub)
         IN  [err |-> "Ok",
              out |-> IF ends_with(out, SLASH) THEN out ELSE out \o SLASH]

RECEIPTS_DIR == <<"r", "e", "c", "e", "i", "p", "t", "s", "/">>

derive_receipts_boxes_uri_base(boxes_uri_base) ==
    derive_receipts_uri_base(boxes_uri_base, RECEIPTS_DIR \o BOXES)

derive_receipts_figures_uri_base(boxes_uri_base) ==
    derive_receipts_uri_base(boxes_uri_base, RECEIPTS_DIR \o FIGURES)

\* the owner of an account passed as the receipts tree
TreeOwner(k) ==
    IF k = "receipts_tree" THEN MPL_ACCOUNT_COMPRESSION_PROGRAM_ID
    ELSE SYSTEM_PROGRAM_ID

\* Pubkey::find_program_address(&[merkle_tree], &BUBBLEGUM_PROGRAM_ID)
tree_config_address(tree) == <<"tree_config", tree>>

\* #[derive(Accounts)] MintReceipts
MintReceiptsAccounts(s, a) ==
    IF ~s.config.exists THEN "AccountNotInitialized"
    ELSE IF a.core_collection # s.config.core_collection THEN "ConstraintAddress"
    ELSE IF a.log_wrapper # MPL_NOOP_PROGRAM_ID THEN "ConstraintAddress"
    ELSE IF a.compression_program # MPL_ACCOUNT_COMPRESSION_PROGRAM_ID
         THEN "ConstraintAddress"
    ELSE IF a.mpl_core_program # MPL_CORE_PROGRAM_ID THEN "ConstraintAddress"
    ELSE IF a.mpl_core_cpi_signer # MPL_CORE_CPI_SIGNER THEN "ConstraintAddress"
    ELSE "Ok"

\* no element of the list occurs twice
Distinct(ids) == \A i, j \in 1..Len(ids) : i < j => ids[i] # ids[j]

\* fault: ids not compared with each other
MintReceiptsChecks_NoDupCheck(s, a) ==
    LET total == Len(a.box_ids) + Len(a.dude_ids) IN
    IF a.cosigner # s.config.admin THEN "InvalidCosigner"
    ELSE IF a.cosigner # s.config.treasury THEN "InvalidCosigner"
    ELSE IF a.bubblegum_program # BUBBLEGUM_PROGRAM_ID
         THEN "InvalidBubblegumProgram"
    ELSE IF a.log_wrapper # MPL_NOOP_PROGRAM_ID THEN "InvalidMplNoopProgram"
    ELSE IF a.compression_program # MPL_ACCOUNT_COMPRESSION_PROGRAM_ID
         THEN "InvalidCompressionProgram"
    ELSE IF a.mpl_core_program # MPL_CORE_PROGRAM_ID THEN "InvalidMplCoreProgram"
    ELSE IF a.mpl_core_cpi_signer # MPL_CORE_CPI_SIGNER
         THEN "InvalidMplCoreCpiSigner"
    ELSE IF ~(total > 0) THEN "InvalidQuantity"
    ELSE IF ~(total <= ReceiptsCap) THEN "InvalidQuantity"
    ELSE IF \E k \in 1..Len(a.box_ids) :
                ~(a.box_ids[k] >= 1 /\ a.box_ids[k] <= s.config.max_supply)
         THEN "InvalidAssetMetadata"
    ELSE IF \E k \in 1..Len(a.dude_ids) :
                ~(a.dude_ids[k] >= 1 /\ a.dude_ids[k] <= MAX_DUDE_ID)
         THEN "InvalidDudeId"
    ELSE IF TreeOwner(a.merkle_tree) # MPL_ACCOUNT_COMPRESSION_PROGRAM_ID
         THEN "InvalidReceiptsMerkleTree"
    ELSE IF a.tree_config # tree_config_address(a.merkle_tree)
         THEN "InvalidReceiptsTreeConfig"
    ELSE IF derive_receipts_boxes_uri_base(s.config.uri_base).err # "Ok"
         THEN derive_receipts_boxes_uri_base(s.config.uri_base).err
    ELSE derive_receipts_figures_uri_base(s.config.uri_base).err

\* the checks of mint_receipts, in the order of the code
MintReceiptsChecks(s, a) ==
    LET total == Len(a.box_ids) + Len(a.dude_ids) IN
    IF a.cosigner # s.config.admin THEN "InvalidCosigner"
    ELSE IF a.cosigner # s.config.treasury THEN "InvalidCosigner"
    ELSE IF a.bubblegum_program # BUBBLEGUM_PROGRAM_ID
         THEN "InvalidBubblegumProgram"
    ELSE IF a.log_wrapper # MPL_NOOP_PROGRAM_ID THEN "InvalidMplNoopProgram"
    ELSE IF a.compression_program # MPL_ACCOUNT_COMPRESSION_PROGRAM_ID
         THEN "InvalidCompressionProgram"
    ELSE IF a.mpl_core_program # MPL_CORE_PROGRAM_ID THEN "InvalidMplCoreProgram"
    ELSE IF a.mpl_core_cpi_signer # MPL_CORE_CPI_SIGNER
         THEN "InvalidMplCoreCpiSigner"
    ELSE IF ~(total > 0) THEN "InvalidQuantity"
    ELSE IF ~(total <= ReceiptsCap) THEN "InvalidQuantity"
    ELSE IF \E k \in 1..Len(a.box_ids) :
                ~(a.box_ids[k] >= 1 /\ a.box_ids[k] <= s.config.max_supply)
         THEN "InvalidAssetMetadata"
    ELSE IF \E k \in 1..Len(a.dude_ids) :
                ~(a.dude_ids[k] >= 1 /\ a.dude_ids[k] <= MAX_DUDE_ID)
         THEN "InvalidDudeId"
    ELSE IF ~Distinct(a.box_ids) THEN "InvalidAssetMetadata"
    ELSE IF ~Distinct(a.dude_ids) THEN "DuplicateDudeId"
    ELSE IF TreeOwner(a.merkle_tree) # MPL_ACCOUNT_COMPRESSION_PROGRAM_ID
         THEN "InvalidReceiptsMerkleTree"
    ELSE IF a.tree_config # tree_config_address(a.merkle_tree)
         THEN "InvalidReceiptsTreeConfig"
    ELSE IF derive_receipts_boxes_uri_base(s.config.uri_base).err # "Ok"
         THEN derive_receipts_boxes_uri_base(s.config.uri_base).err
    ELSE derive_receipts_figures_uri_base(s.config.uri_base).err

\* the leaves Bubblegum mintV2 adds for the boxes, then for the figures
ReceiptLeaves(s, a) ==
    [k \in 1..Len(a.box_ids) |->
        [owner |-> a.user,
         name |-> <<"mons receipt . box ">> \o Dec(a.box_ids[k]),
         uri |-> derive_receipts_boxes_uri_base(s.config.uri_base).out
                    \o Dec(a.box_ids[k]) \o DOT_JSON]]
    \o [k \in 1..Len(a.dude_ids) |->
        [owner |-> a.user,
         name |-> <<"mons receipt . figure #">> \o Dec(a.dude_ids[k]),
         uri |-> derive_receipts_figures_uri_base(s.config.uri_base).out
                    \o Dec(a.dude_ids[k]) \o DOT_JSON]]

mint_receipts(s, a) ==
    IF MintReceiptsAccounts(s, a) # "Ok"
    THEN Refuse(s, MintReceiptsAccounts(s, a))
    ELSE IF MintReceiptsChecks(s, a) # "Ok"
         THEN Refuse(s, MintReceiptsChecks(s, a))
    ELSE [Begin(s) EXCEPT
            !.receipts = @ \o ReceiptLeaves(s, a),
            !.ev = [k \in 1..(Len(a.box_ids) + Len(a.dude_ids)) |->
                       <<"receipt", k>>]]

---------------------------------------------------------------------------
\* The whole shop: every instruction of the program, on a shop whose box
\* URIs are under "boxes".

\* how many successful deliver calls, and how many receipts, are followed
ShopDeliveries == 1
ShopReceipts == 1

ShopInitArgs ==
    { [admin |-> "admin", treasury |-> "vault", core_collection |-> "coll",
       price_lamports |-> PriceArg, max_supply |-> SupplyArg,
       max_per_tx |-> 2, name_prefix |-> <<"B">>, symbol |-> <<"B", "X">>,
       uri_base |-> BOXES] }

OpenShop ==
    \E a \in ShopInitArgs :
        /\ Ready
        /\ Commit(initialize(Chain, a))
        /\ last' = Done("initialize", a, initialize(Chain, a))
        /\ UNCHANGED <<granted, issued, inflight, delivered>>

\* who buys in this shop
ShopBuyers == {"alice"}

\* each buyer buys one box
SellOneBox ==
    \E p \in ShopBuyers :
        /\ Ready
        /\ config.exists
        /\ MintVia([payer |-> p, treasury |-> config.treasury,
                    core_collection |-> config.core_collection,
                    mpl_core_program |-> MPL_CORE_PROGRAM_ID,
                    quantity |-> 1, mint_id |-> 1,
                    box_bumps |-> ClientBumps(p, 1, 1),
                    remaining |-> ClientAddresses(p, 1, 1),
                    reject |-> -1])
        /\ UNCHANGED inflight

\* the boxes there can be
ShopBoxes == { BoxKeys(p)[1] : p \in ShopBuyers }

StartCall(p, box, t, c, m, pd, rem, ix) ==
    [payer |-> p, box_asset |-> box, treasury |-> t, core_collection |-> c,
     mpl_core_program |-> m, pending |-> pd, remaining |-> rem, next_ix |-> ix,
     transfer_refused |-> FALSE]

\* a well-formed opening of a box by p
GoodStart(p, box) ==
    StartCall(p, box, config.treasury, config.core_collection,
              MPL_CORE_PROGRAM_ID, pending_address(box), DudeAddresses(box),
              TransferIx(box, config.core_collection, p, config.treasury))

\* a good opening with one thing wrong: no transfer after it, a transfer to
\* the payer, the placeholders of another box, or the pending account of
\* another box
SkewedStarts(p, box) ==
    LET g == GoodStart(p, box)
        other == BoxKeys(p)[2]
    IN  { [g EXCEPT !.next_ix = NoIx],
          [g EXCEPT !.next_ix.accounts[5].pubkey = "alice"],
          [g EXCEPT !.transfer_refused = TRUE],
          [g EXCEPT !.remaining = DudeAddresses(other)],
          [g EXCEPT !.pending = pending_address(other)] }

StartOpenBox ==
    /\ Ready
    /\ config.exists
    /\ \E p \in Payers, box \in ShopBoxes :
         \E a \in {GoodStart(p, box)} \cup SkewedStarts(p, box) :
            /\ Commit(StartOpenBoxTx(Chain, a))
            /\ last' = Done("start_open_box", a, StartOpenBoxTx(Chain, a))
            /\ UNCHANGED <<granted, issued, inflight, delivered>>

\* the figure ids the cosigner reveals: three good ones, a repeated one,
\* one below and one above the range
DudeIdChoices == { <<1, 2, 3>>, <<1, 1, 2>>, <<0, 1, 2>>, <<1, 2, MAX_DUDE_ID + 1>> }

FinalizeCall(cs, box, user, ids) ==
    [cosigner |-> cs, box_asset |-> box,
     core_collection |-> config.core_collection,
     mpl_core_program |-> MPL_CORE_PROGRAM_ID,
     log_wrapper |-> SPL_NOOP_PROGRAM_ID, pending |-> pending_address(box),
     user |-> user, remaining |-> DudeAddresses(box), dude_ids |-> ids]

FinalizeArgs ==
    { FinalizeCall("admin", box, user, <<1, 2, 3>>) :
        box \in ShopBoxes, user \in Payers }
    \cup { FinalizeCall("admin", box, "alice", ids) :
             box \in ShopBoxes, ids \in DudeIdChoices }
    \cup { FinalizeCall("alice", box, "alice", <<1, 2, 3>>) : box \in ShopBoxes }

FinalizeOpenBox ==
    /\ Ready
    /\ config.exists
    /\ \E a \in FinalizeArgs :
        /\ Commit(finalize_open_box(Chain, a))
        /\ last' = Done("finalize_open_box", a, finalize_open_box(Chain, a))
        /\ UNCHANGED <<granted, issued, inflight, delivered>>

\* what is sent in for delivery: a box, or the first figure of a box
ShopItems == ShopBoxes \cup { DudeAddresses(b)[1] : b \in ShopBoxes }

ShopDeliverArgs ==
    { GoodDeliver(p, 1, b, MIN_DELIVERY_LAMPORTS, <<k>>) :
        p \in Payers, b \in Bumps, k \in ShopItems }
    \cup { [GoodDeliver(p, 1, 254, MIN_DELIVERY_LAMPORTS, <<BoxKeys(p)[1]>>)
              EXCEPT !.cosigner = p] : p \in ShopBuyers }

DeliverInShop ==
    /\ Ready
    /\ config.exists
    /\ Len(delivered) < ShopDeliveries
    /\ \E a \in ShopDeliverArgs : DeliverVia(a)

\* close_delivery of the first id, by the admin or by a holder, with either
\* bump
ShopCloseArgs ==
    { CloseCall(cs, config.treasury, delivery_address(1, b), 1, b) :
        cs \in {"admin", "alice"}, b \in Bumps }

CloseInShop ==
    /\ Ready
    /\ config.exists
    /\ \E a \in ShopCloseArgs :
        /\ Commit(close_delivery(Chain, a))
        /\ last' = Done("close_delivery", a, close_delivery(Chain, a))
        /\ UNCHANGED <<granted, issued, inflight, delivered>>

ReceiptsCall(cs, tree, boxes, dudes) ==
    [cosigner |-> cs, user |-> "alice", merkle_tree |-> tree,
     tree_config |-> tree_config_address("receipts_tree"),
     core_collection |-> config.core_collection,
     bubblegum_program |-> BUBBLEGUM_PROGRAM_ID,
     log_wrapper |-> MPL_NOOP_PROGRAM_ID,
     compression_program |-> MPL_ACCOUNT_COMPRESSION_PROGRAM_ID,
     mpl_core_program |-> MPL_CORE_PROGRAM_ID,
     mpl_core_cpi_signer |-> MPL_CORE_CPI_SIGNER,
     box_ids |-> boxes, dude_ids |-> dudes]

ReceiptsArgs ==
    { ReceiptsCall("admin", "receipts_tree", b, <<7>>) :
        b \in { <<1>>, <<SupplyArg + 1>>, <<1, 1>> } }
    \cup { ReceiptsCall("admin", "receipts_tree", <<>>, <<>>),
           ReceiptsCall("alice", "receipts_tree", <<1>>, <<>>),
           ReceiptsCall("admin", "alice", <<1>>, <<>>) }

MintReceipts ==
    /\ Ready
    /\ config.exists
    /\ Len(receipts) < ShopReceipts
    /\ \E a \in ReceiptsArgs :
        /\ Commit(mint_receipts(Chain, a))
        /\ last' = Done("mint_receipts", a, mint_receipts(Chain, a))
        /\ UNCHANGED <<granted, issued, inflight, delivered>>

NextShop ==
    \/ OpenShop \/ SetTreasury \/ SellOneBox \/ StartOpenBox
    \/ FinalizeOpenBox \/ DeliverInShop \/ CloseInShop \/ MintReceipts

SpecShop == InitDelivery /\ [][NextShop]_vars

---------------------------------------------------------------------------
\* Opening boxes: initialize, mint_boxes, start_open_box and
\* finalize_open_box on three boxes, with every argument of the two opening
\* instructions tried right and wrong.

\* a numbered shop in single-key mode, one whose treasury is a vault, and a
\* single-key shop in shared-metadata mode
RevealInitArgs ==
    { [admin |-> "admin", treasury |-> t[1], core_collection |-> "coll",
       price_lamports |-> PriceArg, max_supply |-> SupplyArg,
       max_per_tx |-> 2, name_prefix |-> <<"B">>, symbol |-> <<"B", "X">>,
       uri_base |-> t[2]] :
      t \in { <<"admin", BOXES>>, <<"vault", BOXES>>,
              <<"admin", BOXES \o DOT_JSON>> } }

OpenForReveal ==
    \E a \in RevealInitArgs :
        /\ Ready
        /\ Commit(initialize(Chain, a))
        /\ last' = Done("initialize", a, initialize(Chain, a))
        /\ UNCHANGED <<granted, issued, inflight, delivered>>

\* the boxes SellBoxes sells
RevealBoxes == { BoxKeys("alice")[1], BoxKeys("alice")[2], BoxKeys("admin")[1] }

\* what is presented as a box: a box, or the first figure of alice's first
\* box (a placeholder until it is revealed, nothing before that)
Presented == RevealBoxes \cup { DudeAddresses(BoxKeys("alice")[1])[1] }

\* transfer instructions that differ from the required one in one place
WrongTransfers(ix) ==
    { NoIx,
      [ix EXCEPT !.program_id = SYSTEM_PROGRAM_ID],
      [ix EXCEPT !.data = <<14>>],
      [ix EXCEPT !.data = <<12, 0>>],
      [ix EXCEPT !.data = <<14, 1>>],
      [ix EXCEPT !.accounts = SubSeq(@, 1, 4)],
      [ix EXCEPT !.accounts[1].pubkey = BoxKeys("alice")[2]],
      [ix EXCEPT !.accounts[2].pubkey = "rogue"],
      [ix EXCEPT !.accounts[3].pubkey = "admin"],
      [ix EXCEPT !.accounts[3].is_signer = FALSE],
      [ix EXCEPT !.accounts[4].pubkey = "admin"],
      [ix EXCEPT !.accounts[4].is_signer = FALSE],
      [ix EXCEPT !.accounts[5].pubkey = "alice"] }

\* the three addresses in another order, one short, one too many, and
\* those of another box
WrongRemaining(rem, other) ==
    { << rem[2], rem[1], rem[3] >>, SubSeq(rem, 1, 2), Append(rem, rem[1]),
      DudeAddresses(other) }

\* the opening of alice's first box with one thing wrong
WrongStarts ==
    LET g     == GoodStart("alice", BoxKeys("alice")[1])
        other == BoxKeys("alice")[2]
    IN  { [g EXCEPT !.next_ix = ix] : ix \in WrongTransfers(g.next_ix) }
        \cup { [g EXCEPT !.remaining = rem] :
                 rem \in WrongRemaining(g.remaining, other) }
        \cup { [g EXCEPT !.transfer_refused = TRUE],
               [g EXCEPT !.pending = pending_address(other)],
               [g EXCEPT !.treasury = "alice"],
               [g EXCEPT !.core_collection = "rogue"],
               [g EXCEPT !.mpl_core_program = "other_program"] }

StartArgs ==
    { GoodStart(p, k) : p \in Payers, k \in Presented } \cup WrongStarts

StartReveal ==
    /\ Ready
    /\ config.exists
    /\ \E a \in StartArgs :
        /\ Commit(StartOpenBoxTx(Chain, a))
        /\ last' = Done("start_open_box", a, StartOpenBoxTx(Chain, a))
        /\ UNCHANGED <<granted, issued, inflight, delivered>>

\* the figure ids revealed: good ones at both ends of the range, a
\* repeated one, one below and one above the range
RevealIdChoices == DudeIdChoices \cup { <<MAX_DUDE_ID, 2, 1>>, <<5, 4, 5>> }

\* the reveal of alice's first box by the admin with one thing wrong
WrongFinalizes ==
    LET box   == BoxKeys("alice")[1]
        other == BoxKeys("alice")[2]
        g     == FinalizeCall("admin", box, "alice", <<1, 2, 3>>)
    IN  { [g EXCEPT !.remaining = rem] :
            rem \in WrongRemaining(g.remaining, other) }
        \cup { [g EXCEPT !.pending = pending_address(other)],
               [g EXCEPT !.box_asset = other],
               [g EXCEPT !.core_collection = "rogue"],
               [g EXCEPT !.log_wrapper = MPL_NOOP_PROGRAM_ID],
               [g EXCEPT !.mpl_core_program = "other_program"] }

RevealArgs ==
    { FinalizeCall(cs, box, user, <<1, 2, 3>>) :
        cs \in Wallets, box \in RevealBoxes, user \in Payers }
    \cup { FinalizeCall(cs, BoxKeys("alice")[1], "alice", ids) :
             cs \in {"admin", "alice"}, ids \in RevealIdChoices }
    \cup WrongFinalizes

FinalizeReveal ==
    /\ Ready
    /\ config.exists
    /\ \E a \in RevealArgs :
        /\ Commit(finalize_open_box(Chain, a))
        /\ last' = Done("finalize_open_box", a, finalize_open_box(Chain, a))
        /\ UNCHANGED <<granted, issued, inflight, delivered>>

NextReveal == OpenForReveal \/ SellBoxes \/ StartReveal \/ FinalizeReveal

SpecReveal == InitDelivery /\ [][NextReveal]_vars

---------------------------------------------------------------------------
\* Receipts: initialize and mint_receipts, with the ids of a call at and
\* around every limit.

\* how many successful mint_receipts calls are followed
ReceiptRounds == 2

\* 1, 2, ..., n
IdsUpTo(n) == [k \in 1..n |-> k]

\* box ids and figure ids of a call: one of each; none; as many as the cap
\* allows and one more, with and without box ids; ids at and beyond each
\* end of their ranges; repeated ids; the same number as box and as figure
ReceiptIds ==
    { << <<1>>, <<7>> >>, << <<>>, <<>> >>,
      << IdsUpTo(SupplyArg), IdsUpTo(ReceiptsCap - SupplyArg) >>,
      << IdsUpTo(SupplyArg), IdsUpTo(ReceiptsCap - SupplyArg + 1) >>,
      << <<>>, IdsUpTo(ReceiptsCap) >>, << <<>>, IdsUpTo(ReceiptsCap + 1) >>,
      << <<0>>, <<>> >>, << <<SupplyArg>>, <<>> >>,
      << <<SupplyArg + 1>>, <<>> >>, << <<2, 1, 2>>, <<>> >>,
      << <<>>, <<0>> >>, << <<>>, <<MAX_DUDE_ID>> >>,
      << <<>>, <<MAX_DUDE_ID + 1>> >>, << <<>>, <<5, 6, 5>> >>,
      << <<3>>, <<3>> >> }

\* a good call by the admin with one account wrong
WrongReceipts ==
    LET g == ReceiptsCall("admin", "receipts_tree", <<1>>, <<7>>) IN
    { [g EXCEPT !.merkle_tree = "alice"],
      [g EXCEPT !.tree_config = tree_config_address("alice")],
      [g EXCEPT !.core_collection = "rogue"],
      [g EXCEPT !.bubblegum_program = "other_program"],
      [g EXCEPT !.log_wrapper = SPL_NOOP_PROGRAM_ID],
      [g EXCEPT !.compression_program = "other_program"],
      [g EXCEPT !.mpl_core_program = "other_program"],
      [g EXCEPT !.mpl_core_cpi_signer = "alice"],
      [g EXCEPT !.user = "admin"] }

WideReceiptsArgs ==
    { ReceiptsCall("admin", "receipts_tree", ids[1], ids[2]) :
        ids \in ReceiptIds }
    \cup { ReceiptsCall(cs, "receipts_tree", <<1>>, <<7>>) :
             cs \in {"alice", "vault"} }
    \cup WrongReceipts

MintReceiptsWide ==
    /\ Ready
    /\ config.exists
    /\ Len(delivered) < ReceiptRounds
    /\ \E a \in WideReceiptsArgs :
        /\ Commit(mint_receipts(Chain, a))
        /\ last' = Done("mint_receipts", a, mint_receipts(Chain, a))
        /\ delivered' = IF mint_receipts(Chain, a).err = "Ok"
                        THEN Append(delivered, a) ELSE delivered
        /\ UNCHANGED <<granted, issued, inflight>>

NextReceipts == OpenForReveal \/ MintReceiptsWide

SpecReceipts == InitDelivery /\ [][NextReceipts]_vars

---------------------------------------------------------------------------
\* URI bases: shops whose box URIs hold "boxes" in each of the three places
\* the derivations look for it, a shop without it and shops in
\* shared-metadata mode, with boxes opened and receipts asked for in each.

\* "a/boxes/", "a/json/boxes/", "boxes"; "u/"; "boxes.json", "u.json"
BaseChoices ==
    { <<"a">> \o SLASH \o BOXES \o SLASH,
      <<"a">> \o JSON_DIR \o SLASH \o BOXES \o SLASH,
      BOXES,
      <<"u">> \o SLASH,
      BOXES \o DOT_JSON,
      <<"u">> \o DOT_JSON }

BasesInitArgs ==
    { [admin |-> "admin", treasury |-> "admin", core_collection |-> "coll",
       price_lamports |-> PriceArg, max_supply |-> SupplyArg,
       max_per_tx |-> 2, name_prefix |-> <<"B">>, symbol |-> <<"B", "X">>,
       uri_base |-> b] : b \in BaseChoices }

OpenForBases ==
    \E a \in BasesInitArgs :
        /\ Ready
        /\ Commit(initialize(Chain, a))
        /\ last' = Done("initialize", a, initialize(Chain, a))
        /\ UNCHANGED <<granted, issued, inflight, delivered>>

NextBases ==
    \/ OpenForBases \/ SellBoxes \/ StartReveal \/ FinalizeReveal
    \/ MintReceipts

SpecBases == InitDelivery /\ [][NextBases]_vars

---------------------------------------------------------------------------
\* Arithmetic at full width.  A u32 is two 16-bit limbs, a u64 four, least
\* significant first, so that values up to u64::MAX are formed without
\* leaving the model checker's integers; quantity is a u8.

LIMB == 2^16

RECURSIVE AddSmall(_, _)
\* x + c over the limbs of x: the sum in the width of x, and the carry out
AddSmall(x, c) ==
    IF x = <<>> THEN [out |-> <<>>, carry |-> c]
    ELSE LET t == Head(x) + c
             r == AddSmall(Tail(x), t \div LIMB)
         IN  [out |-> <<t % LIMB>> \o r.out, carry |-> r.carry]

RECURSIVE AddLimbs(_, _, _)
\* x + y + c for x and y of one width
AddLimbs(x, y, c) ==
    IF x = <<>> THEN [out |-> <<>>, carry |-> c]
    ELSE LET t == Head(x) + Head(y) + c
             r == AddLimbs(Tail(x), Tail(y), t \div LIMB)
         IN  [out |-> <<t % LIMB>> \o r.out, carry |-> r.carry]

RECURSIVE MulSmall(_, _, _)
\* x * q + c, exact: one limb longer than x
MulSmall(x, q, c) ==
    IF x = <<>> THEN <<c>>
    ELSE LET t == Head(x) * q + c
         IN  <<t % LIMB>> \o MulSmall(Tail(x), q, t \div LIMB)

RECURSIVE LimbsLessEq(_, _)
\* x <= y for x and y of one width
LimbsLessEq(x, y) ==
    IF x = <<>> THEN TRUE
    ELSE LET n == Len(x) IN
         \/ x[n] < y[n]
         \/ x[n] = y[n] /\ LimbsLessEq(SubSeq(x, 1, n - 1), SubSeq(y, 1, n - 1))

IsZero(x) == \A k \in 1..Len(x) : x[k] = 0

\* the numbers of a config at full width
WideConfig(price_lamports, minted, max_supply, max_per_tx) ==
    [price_lamports |-> price_lamports, minted |-> minted,
     max_supply |-> max_supply, max_per_tx |-> max_per_tx]

\* fault: the product cast to u64 without the comparison with u64::MAX
MintArithmetic_CastOnly(cfg, quantity) ==
    LET new_total   == AddSmall(cfg.minted, quantity)
        cost        == MulSmall(cfg.price_lamports, quantity, 0)
        first       == AddSmall(cfg.minted, 1)
        none        == [err |-> "Ok", cost |-> <<>>, minted |-> cfg.minted,
                        idx |-> <<>>, wrapped |-> FALSE]
    IN  IF ~(quantity >= 1) THEN [none EXCEPT !.err = "InvalidQuantity"]
        ELSE IF ~(quantity <= max_qty(cfg))
             THEN [none EXCEPT !.err = "InvalidQuantity"]
        ELSE IF new_total.carry # 0 THEN [none EXCEPT !.err = "MathOverflow"]
        ELSE IF ~LimbsLessEq(new_total.out, cfg.max_supply)
             THEN [none EXCEPT !.err = "SoldOut"]
        ELSE [err |-> "Ok",
              cost |-> SubSeq(cost, 1, 4),
              minted |-> new_total.out,
              idx |-> [i \in 1..quantity |->
                          AddSmall(first.out, i - 1).out],
              wrapped |-> \/ first.carry # 0
                          \/ \E i \in 1..quantity :
                                AddSmall(first.out, i - 1).carry # 0]

\* the numbers mint_boxes computes: new_total by checked_add on u32, cost
\* by a multiplication in u128 compared with u64::MAX and cast to u64,
\* start_index (first) and idx by `+` on u32; with the cost it transfers, the
\* minted it writes and the sequence numbers it uses (wrapped: a `+`
\* carried out of its 32 bits)
MintArithmetic(cfg, quantity) ==
    LET new_total   == AddSmall(cfg.minted, quantity)
        cost        == MulSmall(cfg.price_lamports, quantity, 0)
        first       == AddSmall(cfg.minted, 1)
        none        == [err |-> "Ok", cost |-> <<>>, minted |-> cfg.minted,
                        idx |-> <<>>, wrapped |-> FALSE]
    IN  IF ~(quantity >= 1) THEN [none EXCEPT !.err = "InvalidQuantity"]
        ELSE IF ~(quantity <= max_qty(cfg))
             THEN [none EXCEPT !.err = "InvalidQuantity"]
        ELSE IF new_total.carry # 0 THEN [none EXCEPT !.err = "MathOverflow"]
        ELSE IF ~LimbsLessEq(new_total.out, cfg.max_supply)
             THEN [none EXCEPT !.err = "SoldOut"]
        ELSE IF cost[5] # 0 THEN [none EXCEPT !.err = "MathOverflow"]
        ELSE [err |-> "Ok",
              cost |-> SubSeq(cost, 1, 4),
              minted |-> new_total.out,
              idx |-> [i \in 1..quantity |->
                          AddSmall(first.out, i - 1).out],
              wrapped |-> \/ first.carry # 0
                          \/ \E i \in 1..quantity :
                                AddSmall(first.out, i - 1).carry # 0]

\* the balance close_delivery gives the treasury: checked_add of the
\* lamports of the record when there are any
DrainArithmetic(treasury_lamports, record_lamports) ==
    LET sum == AddLimbs(treasury_lamports, record_lamports, 0) IN
    IF IsZero(record_lamports)
    THEN [err |-> "Ok", treasury |-> treasury_lamports]
    ELSE IF sum.carry # 0
    THEN [err |-> "MathOverflow", treasury |-> treasury_lamports]
    ELSE [err |-> "Ok", treasury |-> sum.out]

\* u32 and u64 values from their limbs, most significant first
U32(hi, lo) == <<lo, hi>>
U64(a, b, c, d) == <<d, c, b, a>>
TOP == LIMB - 1

\* prices: 0, 2, 2^32, 2^63 - 1, 2^63, (2^64 - 1) / 15 and one more, 2^64 - 1
WidePrices ==
    { U64(0, 0, 0, 0), U64(0, 0, 0, 2), U64(0, 1, 0, 0),
      U64(32767, TOP, TOP, TOP), U64(32768, 0, 0, 0),
      U64(4369, 4369, 4369, 4369), U64(4369, 4369, 4369, 4370),
      U64(TOP, TOP, TOP, TOP) }

\* minted and max_supply, minted <= max_supply: a new shop, a sold-out
\* one, a count at the end of its low limb, and counts at and near u32::MAX
WideSupplies ==
    { << U32(0, 0), U32(0, 3) >>, << U32(0, 3), U32(0, 3) >>,
      << U32(0, TOP), U32(1, 0) >>,
      << U32(TOP, TOP), U32(TOP, TOP) >>,
      << U32(TOP, TOP - 1), U32(TOP, TOP) >>,
      << U32(TOP, TOP - 15), U32(TOP, TOP) >>,
      << U32(TOP, TOP - 2), U32(TOP, TOP - 1) >> }

WideQuantities == {0, 1, 2, 15, 16, 255}
WidePerTx == {2, 15, 255}

ApplyMintArithmetic ==
    \E p \in WidePrices, m \in WideSupplies, q \in WideQuantities,
       t \in WidePerTx :
        /\ last.op = "none"
        /\ last' = [op |-> "mint_arithmetic",
                    err |-> MintArithmetic(WideConfig(p, m[1], m[2], t), q).err,
                    args |-> [cfg |-> WideConfig(p, m[1], m[2], t),
                              quantity |-> q],
                    ev |-> <<>>, pre |-> Chain,
                    out |-> MintArithmetic(WideConfig(p, m[1], m[2], t), q)]
        /\ UNCHANGED <<config, lamports, assets, granted, issued, inflight,
                       deliveries, pendings, receipts, delivered>>

\* balances of the treasury and of a record: nothing, a little, 2^32, and
\* amounts at and near u64::MAX
WideBalances ==
    { U64(0, 0, 0, 0), U64(0, 0, 0, 7), U64(0, 0, 0, TOP), U64(0, 1, 0, 0),
      U64(32768, 0, 0, 0), U64(TOP, TOP, TOP, TOP - 7),
      U64(TOP, TOP, TOP, TOP - 6), U64(TOP, TOP, TOP, TOP) }

ApplyDrainArithmetic ==
    \E t \in WideBalances, r \in WideBalances :
        /\ last.op = "none"
        /\ last' = [op |-> "drain_arithmetic",
                    err |-> DrainArithmetic(t, r).err,
                    args |-> [treasury |-> t, record |-> r],
                    ev |-> <<>>, pre |-> Chain,
                    out |-> DrainArithmetic(t, r)]
        /\ UNCHANGED <<config, lamports, assets, granted, issued, inflight,
                       deliveries, pendings, receipts, delivered>>

NextArithmetic == ApplyMintArithmetic \/ ApplyDrainArithmetic

SpecArithmetic == Init /\ [][NextArithmetic]_vars

---------------------------------------------------------------------------
\* Properties of the whole shop.

\* the instruction just executed ran on an initialized shop
Stepped == last.op # "none" /\ last.pre.config.exists

\* the fields of the configuration nothing may change after initialize
FixedFields ==
    {"exists", "admin", "core_collection", "price_lamports", "max_supply",
     "max_per_tx", "name_prefix", "symbol", "uri_base", "bump"}

\* C12: after initialize, an instruction changes config.minted only if it
\* is mint_boxes, and then upwards; it changes config.treasury only if it
\* is set_treasury; it changes no other field of the configuration; and
\* start_open_box, finalize_open_box, deliver, close_delivery and
\* mint_receipts leave the whole configuration record as it was.
C12_ConfigFrame ==
    Stepped =>
        /\ DOMAIN config = DOMAIN last.pre.config
        /\ \A f \in FixedFields : config[f] = last.pre.config[f]
        /\ config.minted # last.pre.config.minted
              => last.op = "mint_boxes" /\ config.minted > last.pre.config.minted
        /\ config.treasury # last.pre.config.treasury
              => last.op = "set_treasury"
        /\ last.op \in {"start_open_box", "finalize_open_box", "deliver",
                         "close_delivery", "mint_receipts"}
              => config = last.pre.config

\* a box was sold, opened and burned, its first figure sent in for
\* delivery, and a receipt minted: the configuration still counts one box
\* and is otherwise as the admin last set it
C12_AfterEveryInstruction ==
    /\ last.op = "mint_receipts" /\ last.err = "Ok"
    /\ Len(delivered) = 1
    /\ \E k \in DOMAIN assets : assets[k] = Burned
    /\ config.minted = 1
    /\ config.treasury = "admin"
    /\ Len(receipts) > 0

\* the number of elements of the list that are `tag`
CountOf(tag, ev) == Cardinality({ i \in 1..Len(ev) : ev[i] = tag })

\* C14: a mint_boxes or start_open_box call naming a target address that
\* holds an asset fails and changes nothing; no box address is issued
\* twice, so of two mint_boxes calls by one payer with one mint_id and the
\* same bumps at most one succeeds; and every asset an instruction creates
\* is at an address that held none, while every address that held an
\* asset stays taken.
C14_AddressesClaimedOnce ==
    /\ \A i, j \in 1..Len(issued) : i < j => issued[i][1] # issued[j][1]
    /\ Stepped =>
          /\ (/\ last.op \in {"mint_boxes", "start_open_box"}
               /\ \E i \in 1..Len(last.args.remaining) :
                     last.args.remaining[i] \in DOMAIN last.pre.assets)
                => last.err # "Ok" /\ Untouched
          /\ DOMAIN last.pre.assets \subseteq DOMAIN assets
          /\ last.err = "Ok"
                => Cardinality(DOMAIN assets \ DOMAIN last.pre.assets)
                     = CountOf("create", last.ev)

\* a box that was opened and burned is presented for opening again: its
\* three placeholder addresses hold the figures, and the call is refused
C14_ReopenRefused ==
    /\ last.op = "start_open_box"
    /\ last.err = "InvalidAsset"
    /\ last.args.box_asset \in DOMAIN last.pre.assets
    /\ last.pre.assets[last.args.box_asset] = Burned
    /\ \A i \in 1..DUDES_PER_BOX :
          last.args.remaining[i] \in DOMAIN last.pre.assets
    /\ Untouched

---------------------------------------------------------------------------
\* Properties of opening boxes.

IsStart == last.op = "start_open_box"
IsFinalize == last.op = "finalize_open_box"
FinalizeOk == IsFinalize /\ last.err = "Ok"

\* the asset at the address is a burned one in the state the last
\* instruction ran on
WasBurned(k) == k \in DOMAIN last.pre.assets /\ last.pre.assets[k] = Burned

\* C21: a successful finalize_open_box leaves its box burned and its
\* pending record closed; a burned box stays burned; and every
\* finalize_open_box for a burned box fails and changes nothing.  So after
\* a successful finalize_open_box for a box every later one for that box
\* fails, and no box is finalized twice.
C21_PendingSingleUse ==
    /\ FinalizeOk =>
          /\ assets[last.args.box_asset] = Burned
          /\ last.args.pending \notin DOMAIN pendings
    /\ Stepped =>
          \A k \in DOMAIN last.pre.assets : WasBurned(k) => assets[k] = Burned
    /\ IsFinalize /\ WasBurned(last.args.box_asset) =>
          last.err # "Ok" /\ Untouched

\* the admin repeats, argument for argument, the reveal of a box that is
\* already burned: the pending account is gone and the call is refused
C21_RepeatRefused ==
    /\ IsFinalize
    /\ WasBurned(last.args.box_asset)
    /\ last.args.cosigner = last.pre.config.admin
    /\ last.args.cosigner = last.pre.config.treasury
    /\ last.args.user = "alice"
    /\ last.args.dude_ids = <<1, 2, 3>>
    /\ last.args.pending = pending_address(last.args.box_asset)
    /\ last.args.remaining = DudeAddresses(last.args.box_asset)
    /\ last.args.pending \notin DOMAIN last.pre.pendings
    /\ last.err = "AccountNotInitialized"
    /\ Untouched

\* C22: a finalize_open_box succeeds only if the box presented is the box
\* of the pending record, the user declared is the owner the record names,
\* and the remaining accounts are the three placeholder addresses of the
\* record in the recorded order; a finalize_open_box that fails changes
\* nothing.
C22_FinalizeMatchesRecord ==
    IsFinalize /\ Stepped =>
        /\ last.err = "Ok" =>
              /\ last.args.pending \in DOMAIN last.pre.pendings
              /\ last.pre.pendings[last.args.pending].box_asset
                    = last.args.box_asset
              /\ last.pre.pendings[last.args.pending].owner = last.args.user
              /\ last.pre.pendings[last.args.pending].dudes
                    = last.args.remaining
        /\ last.err # "Ok" => Untouched

\* the admin reveals a pending box for its owner with good ids, but passes
\* the first two placeholders the other way round: refused
C22_WrongOrderRefused ==
    /\ IsFinalize
    /\ last.args.pending \in DOMAIN last.pre.pendings
    /\ last.args.cosigner = last.pre.config.admin
    /\ last.args.cosigner = last.pre.config.treasury
    /\ last.pre.pendings[last.args.pending].owner = last.args.user
    /\ last.args.dude_ids = <<1, 2, 3>>
    /\ Len(last.args.remaining) = DUDES_PER_BOX
    /\ last.args.remaining[1] = last.pre.pendings[last.args.pending].dudes[2]
    /\ last.args.remaining[2] = last.pre.pendings[last.args.pending].dudes[1]
    /\ last.args.remaining[3] = last.pre.pendings[last.args.pending].dudes[3]
    /\ last.err = "InvalidRemainingAccounts"
    /\ Untouched

\* the triple holds an id outside 1..=999 or the same id twice
BadTriple(ids) ==
    \/ \E k \in 1..DUDES_PER_BOX : ids[k] < 1 \/ ids[k] > MAX_DUDE_ID
    \/ \E j, k \in 1..DUDES_PER_BOX : j < k /\ ids[j] = ids[k]

\* C23: a finalize_open_box whose three figure ids hold a duplicate or an
\* id outside 1..=999 fails and changes nothing: the box is not burned, no
\* placeholder is changed or given away, and the pending record is still
\* there.
C23_BadTripleRejected ==
    IsFinalize /\ Stepped /\ BadTriple(last.args.dude_ids) =>
        /\ last.err # "Ok"
        /\ Untouched

\* the admin reveals a pending box in its custody for its owner, with the
\* first id given again as the third: refused as a duplicate, the box
\* still in custody, the placeholders and the record as they were
C23_DuplicateRefused ==
    /\ IsFinalize
    /\ last.args.dude_ids = <<5, 4, 5>>
    /\ last.err = "DuplicateDudeId"
    /\ last.args.pending \in DOMAIN pendings
    /\ assets[last.args.box_asset] # Burned
    /\ assets[last.args.box_asset].owner = config.treasury
    /\ \A k \in 1..DUDES_PER_BOX :
          /\ assets[last.args.remaining[k]].uri = <<>>
          /\ assets[last.args.remaining[k]].owner = config.treasury
    /\ Untouched

\* the cosigner of the last instruction is not the admin, or not the
\* treasury
OtherCosigner ==
    \/ last.args.cosigner # last.pre.config.admin
    \/ last.args.cosigner # last.pre.config.treasury

\* the accounts of the last finalize_open_box satisfy the constraints of
\* FinalizeOpenBox: the configured collection, the log wrapper, and an
\* existing pending account at the address of the box
FinalizeAccountsGood ==
    /\ last.args.core_collection = last.pre.config.core_collection
    /\ last.args.log_wrapper = SPL_NOOP_PROGRAM_ID
    /\ last.args.pending \in DOMAIN last.pre.pendings
    /\ last.args.pending = pending_address(last.args.box_asset)

\* C24 as stated: a finalize_open_box signed by a key other than the admin
\* who is also the treasury fails with InvalidCosigner and changes nothing.
C24_AlwaysInvalidCosigner ==
    IsFinalize /\ Stepped /\ OtherCosigner =>
        last.err = "InvalidCosigner" /\ Untouched

\* C24: a finalize_open_box succeeds only when its cosigner is config.admin
\* and config.treasury; signed by any other key it fails and changes
\* nothing, with InvalidCosigner whenever its accounts satisfy the account
\* constraints (otherwise the constraint fails first, with its own error).
C24_AdminOnly ==
    IsFinalize /\ Stepped =>
        /\ last.err = "Ok" => ~OtherCosigner
        /\ OtherCosigner =>
              /\ last.err # "Ok"
              /\ Untouched
              /\ FinalizeAccountsGood => last.err = "InvalidCosigner"

\* the holder of a pending box signs its reveal herself, naming herself
\* the user: refused with InvalidCosigner
C24_HolderRefused ==
    /\ IsFinalize
    /\ FinalizeAccountsGood
    /\ last.args.cosigner = last.pre.pendings[last.args.pending].owner
    /\ last.args.cosigner = last.args.user
    /\ last.args.cosigner # last.pre.config.admin
    /\ last.args.dude_ids = <<1, 2, 3>>
    /\ last.err = "InvalidCosigner"
    /\ Untouched

\* the instruction is a registry TransferV1 without compression proof
\* whose first five accounts are the asset, the collection, the owner
\* signing as payer, the owner signing as authority, and the new owner
IsTransferOf(ix, asset, collection, owner, new_owner) ==
    /\ ix # NoIx
    /\ ix.program_id = MPL_CORE_PROGRAM_ID
    /\ Len(ix.data) >= 2
    /\ ix.data[1] = 14
    /\ ix.data[2] = 0
    /\ Len(ix.accounts) >= 5
    /\ ix.accounts[1].pubkey = asset
    /\ ix.accounts[2].pubkey = collection
    /\ ix.accounts[3] = Meta(owner, TRUE)
    /\ ix.accounts[4] = Meta(owner, TRUE)
    /\ ix.accounts[5].pubkey = new_owner

\* C25: a start_open_box succeeds only if the instruction after it is a
\* registry TransferV1 (opcode 14, no compression proof) of the box, in the
\* configured collection, with the caller as signing payer and as signing
\* owner, to config.treasury; a start_open_box that fails creates no
\* pending record and no placeholder, and changes nothing else.
C25_TransferMustFollow ==
    IsStart /\ Stepped =>
        /\ last.err = "Ok" =>
              IsTransferOf(last.args.next_ix, last.args.box_asset,
                           last.pre.config.core_collection, last.args.payer,
                           last.pre.config.treasury)
        /\ last.err # "Ok" =>
              /\ Untouched
              /\ DOMAIN pendings = DOMAIN last.pre.pendings
              /\ DOMAIN assets = DOMAIN last.pre.assets

\* the holder of a box opens it with everything right except that the
\* transfer that follows gives the box to herself: refused, the box still
\* hers, no pending record, no placeholder
C25_TransferToSelfRefused ==
    /\ IsStart
    /\ last.args.payer # last.pre.config.treasury
    /\ last.args.next_ix # NoIx
    /\ last.args.next_ix =
          TransferIx(last.args.box_asset, last.pre.config.core_collection,
                     last.args.payer, last.args.payer)
    /\ last.args.box_asset \in DOMAIN assets
    /\ assets[last.args.box_asset].owner = last.args.payer
    /\ last.err = "InvalidTransferInstruction"
    /\ last.args.pending \notin DOMAIN pendings
    /\ \A k \in 1..Len(last.args.remaining) :
          last.args.remaining[k] \notin DOMAIN assets

\* the largest box number looked for in a URI
MaxBoxNumber == 12

\* the box-URI template: uri_base itself in shared-metadata mode, else
\* uri_base, a "/" unless uri_base ends in one, a positive decimal number
\* and ".json"
BoxTemplate(uri_base, uri) ==
    IF ends_with(uri_base, DOT_JSON) THEN uri = uri_base
    ELSE \E n \in 1..MaxBoxNumber :
            uri = uri_base
                    \o (IF ends_with(uri_base, SLASH) THEN <<>> ELSE SLASH)
                    \o Dec(n) \o DOT_JSON

\* C26: a start_open_box succeeds only if the asset presented is an asset
\* of the registry that the caller owns, whose update authority is the
\* configured collection and whose URI matches the box-URI template of the
\* configuration; a start_open_box that fails changes nothing.
C26_OnlyOwnBoxes ==
    IsStart /\ Stepped =>
        /\ last.err = "Ok" =>
              /\ last.args.box_asset \in DOMAIN last.pre.assets
              /\ last.pre.assets[last.args.box_asset] # Burned
              /\ last.pre.assets[last.args.box_asset].owner = last.args.payer
              /\ last.pre.assets[last.args.box_asset].ua_kind = 2
              /\ last.pre.assets[last.args.box_asset].ua
                    = last.pre.config.core_collection
              /\ BoxTemplate(last.pre.config.uri_base,
                             last.pre.assets[last.args.box_asset].uri)
        /\ last.err # "Ok" => Untouched

\* alice presents, as a box to open, a revealed figure that she owns and
\* that is in the collection, with the transfer and the addresses a box
\* would need: refused for its URI
C26_FigureIsNoBox ==
    /\ IsStart
    /\ last.args = GoodStart(last.args.payer, last.args.box_asset)
    /\ last.args.box_asset \in DOMAIN assets
    /\ assets[last.args.box_asset].owner = last.args.payer
    /\ assets[last.args.box_asset].ua_kind = 2
    /\ assets[last.args.box_asset].ua = config.core_collection
    /\ assets[last.args.box_asset].uri
          = FIGURES \o SLASH \o Dec(1) \o DOT_JSON
    /\ last.err = "InvalidAssetMetadata"
    /\ Untouched

\* the box of the pending record at p
BoxOf(p) == pendings[p].box_asset

\* the vault the box of the pending record at p was transferred to: the
\* treasury of that moment, which owns the placeholders made with the
\* record for as long as the record exists
VaultAtStart(p) == assets[pendings[p].dudes[1]].owner

\* C27 as stated: whenever a pending record exists its box exists, is not
\* burned, and is owned by the vault it was transferred to in the
\* transaction that made the record, not by the holder who opened it.
C27_HeldByFirstVault ==
    \A p \in DOMAIN pendings :
        /\ BoxOf(p) \in DOMAIN assets
        /\ assets[BoxOf(p)] # Burned
        /\ assets[BoxOf(p)].owner = VaultAtStart(p)
        /\ assets[BoxOf(p)].owner # pendings[p].owner

\* C27: whenever a pending record exists its box exists and is not burned.
\* A record is made only by a successful start_open_box transaction, which
\* leaves the box and the three placeholders owned by config.treasury;
\* while the record exists the placeholders stay with that vault, and the
\* box stays with its owner unless that owner hands it in with deliver,
\* which gives it to the treasury configured then.  A start_open_box
\* transaction that fails, in the instruction or in the transfer after it,
\* changes nothing: no pending record and no placeholder exists.
C27_BoxInCustody ==
    /\ \A p \in DOMAIN pendings :
        /\ BoxOf(p) \in DOMAIN assets
        /\ assets[BoxOf(p)] # Burned
        /\ p \notin DOMAIN last.pre.pendings =>
              /\ IsStart /\ last.err = "Ok"
              /\ last.args.pending = p
              /\ assets[BoxOf(p)].owner = last.pre.config.treasury
              /\ VaultAtStart(p) = last.pre.config.treasury
        /\ p \in DOMAIN last.pre.pendings =>
              /\ pendings[p] = last.pre.pendings[p]
              /\ VaultAtStart(p) = last.pre.assets[pendings[p].dudes[1]].owner
              /\ \/ assets[BoxOf(p)].owner = last.pre.assets[BoxOf(p)].owner
                 \/ /\ last.op = "deliver"
                    /\ last.args.payer = last.pre.assets[BoxOf(p)].owner
                    /\ assets[BoxOf(p)].owner = last.pre.config.treasury
    /\ IsStart /\ Stepped /\ last.err # "Ok" =>
          /\ Untouched
          /\ DOMAIN pendings = DOMAIN last.pre.pendings
          /\ DOMAIN assets = DOMAIN last.pre.assets

\* a box was opened while the admin was the treasury; the treasury was then
\* set to the vault, and the admin handed the box in with deliver: the
\* pending record exists and its box is with the vault, the placeholders
\* with the admin
C27_CustodyMoved ==
    /\ last.op = "deliver" /\ last.err = "Ok"
    /\ \E p \in DOMAIN pendings :
          /\ last.args.remaining = <<BoxOf(p)>>
          /\ last.args.payer = VaultAtStart(p)
          /\ assets[BoxOf(p)].owner = config.treasury
          /\ assets[BoxOf(p)].owner # VaultAtStart(p)
          /\ assets[BoxOf(p)].owner # pendings[p].owner

\* the figure with this id, owned by `owner`, in the collection
Figure(owner, collection, figures_uri_base, id) ==
    [owner |-> owner, ua_kind |-> 2, ua |-> collection,
     name |-> <<"mons figure #">> \o Dec(id),
     uri |-> figures_uri_base \o Dec(id) \o DOT_JSON]

\* the pending record the last finalize_open_box was given
RecordGiven == last.pre.pendings[last.args.pending]

\* C28: a successful finalize_open_box found the box owned by
\* config.treasury and leaves it burned; leaves the k-th recorded
\* placeholder named "mons figure #<id>" for the k-th id, with URI
\* <figures base><id>.json, in the configured collection and owned by the
\* owner the pending record names; leaves the pending record closed, its
\* lamports with the cosigner; and touches no other asset and not the
\* configuration.  A finalize_open_box that fails changes nothing.
C28_RevealAllOrNothing ==
    IsFinalize /\ Stepped =>
        /\ last.err = "Ok" =>
              /\ last.pre.assets[last.args.box_asset].owner
                    = last.pre.config.treasury
              /\ assets[last.args.box_asset] = Burned
              /\ \A k \in 1..DUDES_PER_BOX :
                    assets[RecordGiven.dudes[k]] =
                        Figure(RecordGiven.owner,
                               last.pre.config.core_collection,
                               derive_figures_uri_base(
                                   last.pre.config.uri_base).out,
                               last.args.dude_ids[k])
              /\ last.args.pending \notin DOMAIN pendings
              /\ DOMAIN pendings = DOMAIN last.pre.pendings \ {last.args.pending}
              /\ DOMAIN assets = DOMAIN last.pre.assets
              /\ \A k \in DOMAIN assets :
                    (k # last.args.box_asset
                       /\ \A j \in 1..DUDES_PER_BOX : k # RecordGiven.dudes[j])
                    => assets[k] = last.pre.assets[k]
              /\ lamports = [last.pre.lamports EXCEPT ![last.args.cosigner] =
                                @ + RecordGiven.lamports]
              /\ config = last.pre.config
        /\ last.err # "Ok" => Untouched

\* alice's box is revealed as figures 999, 2 and 1: the box is burned, the
\* record closed, and her three figures carry those numbers in that order
C28_RevealedInOrder ==
    /\ FinalizeOk
    /\ last.args.dude_ids = <<MAX_DUDE_ID, 2, 1>>
    /\ assets[last.args.box_asset] = Burned
    /\ pendings = <<>>
    /\ assets[last.args.remaining[1]] =
          [owner |-> "alice", ua_kind |-> 2, ua |-> "coll",
           name |-> <<"mons figure #", "9", "9", "9">>,
           uri |-> FIGURES \o <<"/", "9", "9", "9">> \o DOT_JSON]
    /\ assets[last.args.remaining[3]].uri
          = FIGURES \o <<"/", "1">> \o DOT_JSON
    /\ assets[last.args.remaining[3]].owner = "alice"

\* the asset at k is a revealed figure
IsFigure(ast, k) ==
    /\ ast[k].name # <<>>
    /\ ast[k].name[1] = "mons figure #"

\* C29 as stated: no two figure assets carry the same figure id, and a
\* finalize_open_box that names an id an existing figure carries fails.
C29_FigureIdsUnique ==
    /\ \A j, k \in DOMAIN assets :
          (j # k /\ IsFigure(assets, j) /\ IsFigure(assets, k))
              => assets[j].name # assets[k].name
    /\ (/\ IsFinalize /\ Stepped
        /\ \E x \in DOMAIN last.pre.assets : \E k \in 1..DUDES_PER_BOX :
              /\ IsFigure(last.pre.assets, x)
              /\ last.pre.assets[x].name = figure_name(last.args.dude_ids[k]))
          => last.err # "Ok"

IsReceipts == last.op = "mint_receipts"

\* the ids are within lo..hi and none occurs twice
GoodIds(ids, lo, hi) ==
    /\ \A k \in 1..Len(ids) : ids[k] >= lo /\ ids[k] <= hi
    /\ \A j, k \in 1..Len(ids) : j < k => ids[j] # ids[k]

\* C30: a mint_receipts succeeds only if its cosigner is config.admin and
\* config.treasury, it names between 1 and 24 ids, every box id is within
\* 1..=max_supply, every figure id within 1..=999, and no box id and no
\* figure id occurs twice; a successful one adds exactly one receipt per
\* id, for the boxes and then the figures in the order given, owned by the
\* user named, and changes nothing else, the configuration included; a
\* mint_receipts that fails changes nothing.
C30_ReceiptsChecked ==
    IsReceipts /\ Stepped =>
        /\ last.err = "Ok" =>
              /\ last.args.cosigner = last.pre.config.admin
              /\ last.args.cosigner = last.pre.config.treasury
              /\ Len(last.args.box_ids) + Len(last.args.dude_ids) >= 1
              /\ Len(last.args.box_ids) + Len(last.args.dude_ids) <= 24
              /\ GoodIds(last.args.box_ids, 1, last.pre.config.max_supply)
              /\ GoodIds(last.args.dude_ids, 1, 999)
              /\ Len(receipts) = Len(last.pre.receipts)
                    + Len(last.args.box_ids) + Len(last.args.dude_ids)
              /\ SubSeq(receipts, 1, Len(last.pre.receipts))
                    = last.pre.receipts
              /\ \A k \in 1..Len(last.args.box_ids) :
                    LET leaf == receipts[Len(last.pre.receipts) + k] IN
                    /\ leaf.owner = last.args.user
                    /\ leaf.name = <<"mons receipt . box ">>
                                      \o Dec(last.args.box_ids[k])
              /\ \A k \in 1..Len(last.args.dude_ids) :
                    LET leaf == receipts[Len(last.pre.receipts)
                                           + Len(last.args.box_ids) + k] IN
                    /\ leaf.owner = last.args.user
                    /\ leaf.name = <<"mons receipt . figure #">>
                                      \o Dec(last.args.dude_ids[k])
              /\ config = last.pre.config
              /\ assets = last.pre.assets
              /\ lamports = last.pre.lamports
              /\ pendings = last.pre.pendings
              /\ deliveries = last.pre.deliveries
        /\ last.err # "Ok" => Untouched

\* the admin asks for the receipts of three boxes and twenty-one figures,
\* the most one call may name: twenty-four receipts are added, the last
\* for figure 21
C30_FullBatchMinted ==
    /\ IsReceipts /\ last.err = "Ok"
    /\ Len(last.args.box_ids) = 3
    /\ Len(last.args.dude_ids) = 21
    /\ Len(receipts) = Len(last.pre.receipts) + 24
    /\ receipts[Len(receipts)].owner = "alice"
    /\ receipts[Len(receipts)].name = <<"mons receipt . figure #", "2", "1">>
    /\ receipts[Len(last.pre.receipts) + 3].name
          = <<"mons receipt . box ", "3">>
    /\ config = last.pre.config

---------------------------------------------------------------------------
\* Properties of the remaining claims.

StartOk == IsStart /\ Stepped /\ last.err = "Ok"

\* the address derive("pdude", pending address, i)
PlaceholderAt(pending_key, i) ==
    find_program_address(SEED_PENDING_DUDE_ASSET, pending_key, i)

\* C31: a successful start_open_box creates exactly 3 assets, at the
\* addresses derive("pdude", pending address, i) for i = 0, 1, 2, each with
\* empty name and URI, in no collection, owned by config.treasury and with
\* the configuration address as update authority; and it adds one pending
\* record, at the address derived from the box, whose owner is the caller,
\* whose box is the box presented and whose placeholders are those three
\* addresses in index order.
C31_StartCreatesPlaceholders ==
    StartOk =>
        LET p   == find_program_address(SEED_PENDING_OPEN,
                                        last.args.box_asset, 0)
            new == { PlaceholderAt(p, i) : i \in 0..2 }
        IN  /\ Cardinality(new) = 3
            /\ DOMAIN assets = DOMAIN last.pre.assets \cup new
            /\ new \cap DOMAIN last.pre.assets = {}
            /\ \A k \in new :
                  /\ assets[k].name = <<>>
                  /\ assets[k].uri = <<>>
                  /\ assets[k].ua_kind # 2
                  /\ assets[k].ua_kind = 1
                  /\ assets[k].ua = CONFIG_PDA
                  /\ assets[k].owner = last.pre.config.treasury
            /\ DOMAIN pendings = DOMAIN last.pre.pendings \cup {p}
            /\ p \notin DOMAIN last.pre.pendings
            /\ \A q \in DOMAIN last.pre.pendings :
                  pendings[q] = last.pre.pendings[q]
            /\ pendings[p].owner = last.args.payer
            /\ pendings[p].box_asset = last.args.box_asset
            /\ pendings[p].dudes = << PlaceholderAt(p, 0), PlaceholderAt(p, 1),
                                      PlaceholderAt(p, 2) >>

\* alice starts opening her second box while the treasury is the vault:
\* the third placeholder is the vault's and is the third one recorded
C31_ThirdPlaceholderOfVault ==
    /\ StartOk
    /\ last.args.payer = "alice"
    /\ last.args.box_asset = BoxKeys("alice")[2]
    /\ last.pre.config.treasury = "vault"
    /\ LET p == pending_address(last.args.box_asset) IN
       /\ p \in DOMAIN pendings
       /\ pendings[p].dudes[3] = PlaceholderAt(p, 2)
       /\ PlaceholderAt(p, 2) \in DOMAIN assets
       /\ assets[PlaceholderAt(p, 2)].owner = "vault"
       /\ assets[PlaceholderAt(p, 2)].name = <<>>

\* the base of the box URIs is one no figure or receipt base is made from
BadBase(uri_base) ==
    ~contains(uri_base, BOXES) \/ ends_with(uri_base, DOT_JSON)

\* the last finalize_open_box is one the admin, who is the treasury, signed
\* for a recorded box held in custody, with its user and placeholders,
\* three distinct ids in range and the right programs
FinalizeWellFormed ==
    /\ IsFinalize /\ Stepped
    /\ FinalizeAccountsGood
    /\ last.args.cosigner = last.pre.config.admin
    /\ last.args.cosigner = last.pre.config.treasury
    /\ last.args.mpl_core_program = MPL_CORE_PROGRAM_ID
    /\ ~BadTriple(last.args.dude_ids)
    /\ RecordGiven.box_asset = last.args.box_asset
    /\ RecordGiven.owner = last.args.user
    /\ last.args.remaining = RecordGiven.dudes
    /\ last.args.box_asset \in DOMAIN last.pre.assets
    /\ last.pre.assets[last.args.box_asset] # Burned
    /\ last.pre.assets[last.args.box_asset].owner = last.pre.config.treasury

\* the last mint_receipts is one the admin, who is the treasury, signed
\* with the right accounts and with ids that pass every check
ReceiptsWellFormed ==
    /\ IsReceipts /\ Stepped
    /\ last.args.cosigner = last.pre.config.admin
    /\ last.args.cosigner = last.pre.config.treasury
    /\ last.args.core_collection = last.pre.config.core_collection
    /\ last.args.bubblegum_program = BUBBLEGUM_PROGRAM_ID
    /\ last.args.log_wrapper = MPL_NOOP_PROGRAM_ID
    /\ last.args.compression_program = MPL_ACCOUNT_COMPRESSION_PROGRAM_ID
    /\ last.args.mpl_core_program = MPL_CORE_PROGRAM_ID
    /\ last.args.mpl_core_cpi_signer = MPL_CORE_CPI_SIGNER
    /\ last.args.merkle_tree = "receipts_tree"
    /\ last.args.tree_config = tree_config_address("receipts_tree")
    /\ Len(last.args.box_ids) + Len(last.args.dude_ids) \in 1..24
    /\ GoodIds(last.args.box_ids, 1, last.pre.config.max_supply)
    /\ GoodIds(last.args.dude_ids, 1, 999)

\* C32 as stated: on a base without "boxes" or ending in ".json", a
\* finalize_open_box fails with InvalidFigureUriBase and a mint_receipts
\* with InvalidReceiptUriBase, and nothing is changed.
C32_AlwaysUriBaseError ==
    Stepped /\ BadBase(last.pre.config.uri_base) =>
        /\ IsFinalize => last.err = "InvalidFigureUriBase" /\ Untouched
        /\ IsReceipts => last.err = "InvalidReceiptUriBase" /\ Untouched

\* C32: on a base without "boxes" or ending in ".json", every
\* finalize_open_box and every mint_receipts fails and changes nothing
\* (nothing burned, updated, transferred or minted); the error is
\* InvalidFigureUriBase, for mint_receipts InvalidReceiptUriBase, when the
\* call passes all the checks made before the derivation, else the error of
\* the first check it fails. On any other base the figures revealed carry
\* URIs with "figures" in the place of "boxes".
C32_DerivationFailsLoudly ==
    /\ Stepped /\ BadBase(last.pre.config.uri_base) =>
        /\ IsFinalize => /\ last.err # "Ok"
                         /\ Untouched
                         /\ FinalizeWellFormed =>
                               last.err = "InvalidFigureUriBase"
        /\ IsReceipts => /\ last.err # "Ok"
                         /\ Untouched
                         /\ ReceiptsWellFormed =>
                               last.err = "InvalidReceiptUriBase"
    /\ FinalizeOk /\ Stepped =>
          \A k \in 1..3 :
              /\ contains(assets[last.args.remaining[k]].uri, FIGURES)
              /\ ~contains(assets[last.args.remaining[k]].uri, BOXES)
    /\ IsReceipts /\ Stepped /\ last.err = "Ok" =>
          \A k \in (Len(last.pre.receipts) + 1)..Len(receipts) :
              contains(receipts[k].uri, <<"r", "e", "c", "e", "i", "p", "t", "s">>)

\* in a shop whose box URIs are under "u/", the admin reveals alice's first
\* box, which is in custody, with every argument right: the call fails with
\* InvalidFigureUriBase and the box is still there
C32_RevealStoppedAfterBurn ==
    /\ FinalizeWellFormed
    /\ last.pre.config.uri_base = <<"u", "/">>
    /\ last.args.box_asset = BoxKeys("alice")[1]
    /\ last.err = "InvalidFigureUriBase"
    /\ assets[last.args.box_asset] # Burned
    /\ last.args.pending \in DOMAIN pendings

RECURSIVE DivSmall(_, _, _)
\* the quotient and remainder of (r, x) by q, from the top limb down
DivSmall(x, q, r) ==
    IF x = <<>> THEN [quot |-> <<>>, rem |-> r]
    ELSE LET n    == Len(x)
             cur  == r * LIMB + x[n]
             rest == DivSmall(SubSeq(x, 1, n - 1), q, cur % q)
         IN  [quot |-> rest.quot \o <<cur \div q>>, rem |-> rest.rem]

RECURSIVE SubLimbs(_, _, _)
\* y - x - b for y >= x + b, in the width of y
SubLimbs(y, x, b) ==
    IF y = <<>> THEN <<>>
    ELSE LET t == Head(y) - Head(x) - b IN
         IF t < 0 THEN <<t + LIMB>> \o SubLimbs(Tail(y), Tail(x), 1)
         ELSE <<t>> \o SubLimbs(Tail(y), Tail(x), 0)

IsMintArithmetic == last.op = "mint_arithmetic"
IsDrainArithmetic == last.op = "drain_arithmetic"

\* price_lamports * quantity > u64::MAX: the price is above u64::MAX
\* divided by the quantity
CostExceedsU64 ==
    /\ last.args.quantity >= 1
    /\ ~LimbsLessEq(last.args.cfg.price_lamports,
                    DivSmall(U64(TOP, TOP, TOP, TOP), last.args.quantity, 0).quot)

\* minted + quantity > u32::MAX: minted is above u32::MAX less the quantity
TotalExceedsU32 ==
    ~LimbsLessEq(last.args.cfg.minted, U32(TOP, TOP - last.args.quantity))

\* treasury + record > u64::MAX: the treasury is above u64::MAX less the
\* lamports of the record
BalanceExceedsU64 ==
    ~LimbsLessEq(last.args.treasury,
                 SubLimbs(U64(TOP, TOP, TOP, TOP), last.args.record, 0))

\* C33 as stated: mint_boxes fails with MathOverflow whenever the cost
\* exceeds u64::MAX or the new total exceeds u32::MAX.
C33_AlwaysMathOverflow ==
    IsMintArithmetic /\ (CostExceedsU64 \/ TotalExceedsU32) =>
        last.err = "MathOverflow"

\* C33: a mint_boxes whose cost would exceed u64::MAX or whose new total
\* would exceed u32::MAX fails -- with MathOverflow when the quantity is
\* within 1..=min(max_per_tx, 15) and, for the cost, the supply suffices --
\* and one that succeeds transfers exactly price_lamports * quantity,
\* records exactly minted + quantity and numbers the boxes minted + 1, ...,
\* minted + quantity, no `+` carrying out of its width; a close_delivery
\* whose treasury balance would exceed u64::MAX fails with MathOverflow,
\* and one that succeeds leaves the treasury exactly the sum.
C33_NoWrap ==
    /\ IsMintArithmetic =>
        /\ CostExceedsU64 \/ TotalExceedsU32 => last.err # "Ok"
        /\ /\ TotalExceedsU32
           /\ last.args.quantity <= max_qty(last.args.cfg)
           => last.err = "MathOverflow"
        /\ /\ CostExceedsU64
           /\ last.args.quantity <= max_qty(last.args.cfg)
           /\ ~TotalExceedsU32
           /\ LimbsLessEq(AddSmall(last.args.cfg.minted,
                                   last.args.quantity).out,
                          last.args.cfg.max_supply)
           => last.err = "MathOverflow"
        /\ last.err = "Ok" =>
            /\ DivSmall(last.out.cost, last.args.quantity, 0)
                  = [quot |-> last.args.cfg.price_lamports, rem |-> 0]
            /\ LimbsLessEq(last.args.cfg.minted, last.out.minted)
            /\ SubLimbs(last.out.minted, last.args.cfg.minted, 0)
                  = U32(0, last.args.quantity)
            /\ ~last.out.wrapped
            /\ Len(last.out.idx) = last.args.quantity
            /\ \A i \in 1..last.args.quantity :
                  /\ LimbsLessEq(last.args.cfg.minted, last.out.idx[i])
                  /\ SubLimbs(last.out.idx[i], last.args.cfg.minted, 0)
                        = U32(0, i)
    /\ IsDrainArithmetic =>
        /\ BalanceExceedsU64 => last.err = "MathOverflow"
        /\ last.err # "Ok" => last.out.treasury = last.args.treasury
        /\ last.err = "Ok" =>
            /\ LimbsLessEq(last.args.treasury, last.out.treasury)
            /\ SubLimbs(last.out.treasury, last.args.treasury, 0)
                  = last.args.record

\* two boxes at 2^63 lamports each in a shop with supply left: the cost is
\* 2^64, and the call fails with MathOverflow
C33_CostOfTwoOverflows ==
    /\ IsMintArithmetic
    /\ last.args.cfg.price_lamports = U64(32768, 0, 0, 0)
    /\ last.args.quantity = 2
    /\ last.args.cfg.minted = U32(0, 0)
    /\ CostExceedsU64
    /\ last.err = "MathOverflow"

\* the records that exist for a delivery_id, one bump each
RecordsOf(id) ==
    { b \in Bumps : /\ delivery_address(id, b) # NoAddress
                    /\ delivery_address(id, b) \in DOMAIN deliveries }

\* C34: for every delivery_id at most one delivery record exists at any
\* time, whatever bumps the callers send.
C34_OneRecordPerId ==
    \A id \in DeliveryIds : Cardinality(RecordsOf(id)) <= 1

\* C35: a deliver that succeeds carries a delivery_id no earlier successful
\* deliver carried, whether or not the record of the earlier one has been
\* closed since.
C35_IdConsumedForGood ==
    DeliverOk =>
        \A i \in 1..(Len(delivered) - 1) :
            delivered[i].delivery_id # last.args.delivery_id

\* what the admin's reveal of the box of pending record p returns when
\* called now with the recorded box, user and placeholders and ids 1, 2, 3
RevealNow(p) ==
    finalize_open_box(Chain,
        [FinalizeCall(config.admin, pendings[p].box_asset, pendings[p].owner,
                      <<1, 2, 3>>)
            EXCEPT !.pending = p, !.remaining = pendings[p].dudes])

\* C36: in every state in which a pending record exists, a
\* finalize_open_box signed by the admin with the recorded box, user and
\* placeholders and three distinct ids in 1..=999 succeeds.
C36_PendingRevealable ==
    \A p \in DOMAIN pendings : RevealNow(p).err = "Ok"

\* the box mint_boxes makes for sequence number idx, held by alice
MintedBox(cfg, idx) ==
    "box" :> [owner |-> "alice", ua_kind |-> 2, ua |-> cfg.core_collection,
              name |-> box_name(cfg, idx), uri |-> box_uri(cfg, idx)]

\* C37: for every uri_base initialize accepted and every sequence number
\* k >= 1, the box whose URI mint_boxes wrote for k passes
\* verify_core_asset_owned_by_uri as called by start_open_box, and unless
\* uri_base ends in ".json" the id parsed back from the URI is k.
C37_MintedUriRoundTrips ==
    last.op = "box_uri" =>
        /\ last.out = box_uri(config, last.args.idx)
        /\ verify_core_asset_owned_by_uri(MintedBox(config, last.args.idx),
               "box", "alice", config.core_collection, config.uri_base,
               NoRef) = "Ok"
        /\ ~ends_with(config.uri_base, DOT_JSON) =>
               parse_ref_id_from_uri_bytes(last.out, config.uri_base)
                   = last.args.idx

\* the assets at box addresses, those of them burned, the assets at
\* placeholder addresses, and those of them revealed into the collection
BoxesMade == { k \in DOMAIN assets : k[1] = SEED_BOX_ASSET }
BoxesBurned == { k \in BoxesMade : assets[k] = Burned }
DudesMade == { k \in DOMAIN assets : k[1] = SEED_PENDING_DUDE_ASSET }
DudesRevealed ==
    { k \in DudesMade : /\ assets[k].ua_kind = 2
                        /\ assets[k].ua = config.core_collection
                        /\ IsFigure(assets, k) }

\* C38: in every state at most one pending record exists per box; the
\* placeholder and figure assets number 3 * (pending records + boxes
\* burned), the figures in the collection 3 * (boxes burned), which is at
\* most 3 * config.minted.  No asset ever disappears, a burned box stays
\* burned and a placeholder, once made, stays: so a start_open_box succeeds
\* only for a box that has no placeholder, no record and is not burned,
\* that is, one never started before, and a finalize_open_box only for a
\* box that has a record and is not burned, and it burns it; each succeeds
\* at most once per box.
C38_ThreeFiguresPerBox ==
    /\ config.exists =>
        /\ \A p, q \in DOMAIN pendings :
              pendings[p].box_asset = pendings[q].box_asset => p = q
        /\ \A p \in DOMAIN pendings : p = pending_address(pendings[p].box_asset)
        /\ Cardinality(DudesMade)
              = 3 * (Cardinality(DOMAIN pendings) + Cardinality(BoxesBurned))
        /\ Cardinality(DudesRevealed) = 3 * Cardinality(BoxesBurned)
        /\ Cardinality(DudesRevealed) <= 3 * config.minted
    /\ Stepped =>
        /\ DOMAIN last.pre.assets \subseteq DOMAIN assets
        /\ \A k \in DOMAIN last.pre.assets :
              last.pre.assets[k] = Burned => assets[k] = Burned
    /\ StartOk =>
        /\ \A k \in 1..3 :
              DudeAddresses(last.args.box_asset)[k] \notin DOMAIN last.pre.assets
        /\ pending_address(last.args.box_asset) \notin DOMAIN last.pre.pendings
        /\ last.pre.assets[last.args.box_asset] # Burned
        /\ pending_address(last.args.box_asset) \in DOMAIN pendings
    /\ FinalizeOk /\ Stepped =>
        /\ last.pre.assets[last.args.box_asset] # Burned
        /\ assets[last.args.box_asset] = Burned
        /\ pending_address(last.args.box_asset) \in DOMAIN last.pre.pendings
        /\ pending_address(last.args.box_asset) \notin DOMAIN pendings

\* two boxes have been opened and revealed and a third is being opened:
\* nine placeholder or figure assets exist, six of them figures
C38_TwoRevealedOnePending ==
    /\ config.exists
    /\ Cardinality(BoxesBurned) = 2
    /\ Cardinality(DOMAIN pendings) = 1
    /\ Cardinality(DudesMade) = 9
    /\ Cardinality(DudesRevealed) = 6
    /\ StartOk

\* the keys that signed the transaction of the last instruction: the
\* Signer accounts of the instruction and, for start_open_box, the signer
\* accounts of the instruction after it
SignersOfLast ==
    IF last.op \in {"initialize", "set_treasury"} THEN {last.args.admin}
    ELSE IF last.op = "mint_boxes" THEN {last.args.payer}
    ELSE IF last.op = "deliver" THEN {last.args.cosigner, last.args.payer}
    ELSE IF last.op = "start_open_box"
    THEN {last.args.payer}
         \cup (IF last.args.next_ix = NoIx THEN {}
               ELSE { last.args.next_ix.accounts[k].pubkey :
                        k \in { n \in 1..Len(last.args.next_ix.accounts) :
                                  last.args.next_ix.accounts[n].is_signer } })
    ELSE {last.args.cosigner}

\* the assets whose owner the last instruction changed or which it burned
TakenFromOwner ==
    { k \in DOMAIN last.pre.assets :
        /\ last.pre.assets[k] # Burned
        /\ \/ assets[k] = Burned
           \/ assets[k].owner # last.pre.assets[k].owner }

\* C39: in every step, an asset whose owner changes or which is burned was
\* owned by a signer of the transaction; and an asset mint_boxes creates is
\* owned by its signing payer.
C39_OwnerSigns ==
    Stepped =>
        /\ \A k \in TakenFromOwner :
              last.pre.assets[k].owner \in SignersOfLast
        /\ last.op = "mint_boxes" =>
              \A k \in DOMAIN assets \ DOMAIN last.pre.assets :
                  assets[k].owner = last.args.payer

\* alice, who signs as payer, hands her box in with deliver: it was hers
\* and is the vault's
C39_HolderHandsIn ==
    /\ Stepped
    /\ last.op = "deliver" /\ last.err = "Ok"
    /\ last.args.payer = "alice"
    /\ \E k \in TakenFromOwner :
          /\ last.pre.assets[k].owner = "alice"
          /\ assets[k].owner = "vault"
          /\ last.args.remaining = <<k>>

\* what a wallet held before any sale
InitialLamports(w) == IF w \in Payers THEN StartLamports ELSE 0

\* the boxes minted for a payer: the box addresses derived from its key
BoxesOf(p) == { k \in BoxesMade : k[2] = p }

\* what a wallet has paid for its boxes at the configured price, and what
\* it has received in sales, payments to itself included
PaidBy(w) == config.price_lamports * Cardinality(BoxesOf(w))
ReceivedBy(w) == lamports[w] - InitialLamports(w) + PaidBy(w)

\* C40: in every state the lamports received in sales by all accounts sum
\* to config.price_lamports * config.minted; every box that exists is
\* counted in minted and was paid for by the payer it was minted for at the
\* configured price (a buyer who never was the treasury holds what it
\* started with less the price of its boxes; no account holds less than
\* that); a successful mint_boxes moves exactly price_lamports * quantity
\* from the payer to the treasury configured at that time; a failed call
\* leaves every balance as it was.
C40_ProceedsConserved ==
    /\ config.exists =>
        /\ Cardinality(BoxesMade) = config.minted
        /\ BoxesMade = UNION { BoxesOf(p) : p \in Payers }
        /\ SumOver([w \in Wallets |-> ReceivedBy(w)], Wallets)
              = config.price_lamports * config.minted
        /\ \A w \in Wallets : ReceivedBy(w) >= 0
        /\ ReceivedBy("alice") = 0
    /\ MintOk /\ Stepped =>
        LET cost == last.pre.config.price_lamports * last.args.quantity
            t    == last.pre.config.treasury
        IN  /\ config.price_lamports = last.pre.config.price_lamports
            /\ last.args.payer # t =>
                  /\ lamports[t] = last.pre.lamports[t] + cost
                  /\ lamports[last.args.payer]
                        = last.pre.lamports[last.args.payer] - cost
            /\ \A w \in Wallets \ {t, last.args.payer} :
                  lamports[w] = last.pre.lamports[w]
    /\ Stepped /\ last.err # "Ok" => lamports = last.pre.lamports

\* boxes were sold while the admin was the treasury and again after the
\* treasury was set to the vault: both hold proceeds, and together the
\* price of every box minted
C40_ProceedsInTwoTreasuries ==
    /\ config.exists
    /\ config.treasury = "vault"
    /\ MintOk
    /\ ReceivedBy("admin") > 0
    /\ ReceivedBy("vault") > 0
    /\ ReceivedBy("admin") + ReceivedBy("vault")
          = config.price_lamports * config.minted
    /\ config.minted >= 2

====
